---------------------------- MODULE Spec2Model ----------------------------
(***************************************************************************)
(* A model of the Blokus rules engine of python_blokus: the piece          *)
(* catalogue and orientation engine of Pieces.py and the game state,       *)
(* legality check, move application and move enumeration of Gamestate.py.  *)
(*                                                                         *)
(* Python objects are modelled with their identity: the mutable objects a  *)
(* Gamestate refers to (hand dicts, corner lists, the board array, the     *)
(* lastPlayed list) live in `heap` and a Gamestate holds their addresses,  *)
(* so that two Gamestates that share an object see each other's writes.    *)
(* The class attribute Gamestate.referenceHand is the variable `ref`.      *)
(***************************************************************************)
EXTENDS Integers, Sequences, FiniteSets, TLC

(***************************************************************************)
(* Pieces.py: the catalogue.  A 2xn numpy array is the sequence of its     *)
(* columns <<x, y>>; a 2x2c corner array lists, for each corner, the       *)
(* column on the piece followed by the column outside of it.               *)
(***************************************************************************)

\* class F (Pieces.py 209-221): shape and corners are the columns of the arrays.
F ==
  [ name |-> "F",
    shape |-> <<<<0, 0>>, <<-1, 0>>, <<-1, 1>>, <<-2, 1>>, <<-1, 2>>>>,
    corners |-> << <<0, 0>>, <<1, -1>>, <<-1, 0>>, <<-2, -1>>, <<-1, 2>>, <<0, 3>>,
                 <<-1, 2>>, <<-2, 3>>, <<0, 0>>, <<1, 1>>, <<-2, 1>>, <<-3, 0>>,
                 <<-2, 1>>, <<-3, 2>> >>,
    r90 |-> TRUE, r180 |-> TRUE, chiral |-> TRUE, size |-> 5,
    orientation |-> 0 ]

\* class I (Pieces.py 223-235): shape and corners are the columns of the arrays.
I ==
  [ name |-> "I",
    shape |-> <<<<0, 0>>, <<0, 1>>, <<0, 2>>, <<0, 3>>, <<0, 4>>>>,
    corners |-> << <<0, 0>>, <<-1, -1>>, <<0, 0>>, <<1, -1>>, <<0, 4>>, <<-1, 5>>,
                 <<0, 4>>, <<1, 5>> >>,
    r90 |-> TRUE, r180 |-> FALSE, chiral |-> FALSE, size |-> 5,
    orientation |-> 0 ]

\* class L (Pieces.py 237-249): shape and corners are the columns of the arrays.
L ==
  [ name |-> "L",
    shape |-> <<<<0, 0>>, <<0, -1>>, <<0, -2>>, <<0, -3>>, <<1, 0>>>>,
    corners |-> << <<0, 0>>, <<-1, 1>>, <<1, 0>>, <<2, 1>>, <<1, 0>>, <<2, -1>>,
                 <<0, -3>>, <<-1, -4>>, <<0, -3>>, <<1, -4>> >>,
    r90 |-> TRUE, r180 |-> TRUE, chiral |-> TRUE, size |-> 5,
    orientation |-> 0 ]

\* class N (Pieces.py 251-263): shape and corners are the columns of the arrays.
N ==
  [ name |-> "N",
    shape |-> <<<<0, 0>>, <<0, -1>>, <<0, -2>>, <<1, -2>>, <<1, -3>>>>,
    corners |-> << <<0, 0>>, <<-1, 1>>, <<0, 0>>, <<1, 1>>, <<0, -2>>, <<-1, -3>>,
                 <<1, -2>>, <<2, -1>>, <<1, -3>>, <<0, -4>>, <<1, -3>>, <<2, -4>> >>,
    r90 |-> TRUE, r180 |-> TRUE, chiral |-> TRUE, size |-> 5,
    orientation |-> 0 ]

\* class P (Pieces.py 265-277): shape and corners are the columns of the arrays.
P ==
  [ name |-> "P",
    shape |-> <<<<0, 0>>, <<1, 0>>, <<0, 1>>, <<1, 1>>, <<0, 2>>>>,
    corners |-> << <<0, 0>>, <<-1, -1>>, <<1, 0>>, <<2, -1>>, <<1, 1>>, <<2, 2>>,
                 <<0, 2>>, <<-1, 3>>, <<0, 2>>, <<1, 3>> >>,
    r90 |-> TRUE, r180 |-> TRUE, chiral |-> TRUE, size |-> 5,
    orientation |-> 0 ]

\* class T (Pieces.py 279-291): shape and corners are the columns of the arrays.
T ==
  [ name |-> "T",
    shape |-> <<<<0, 0>>, <<1, 0>>, <<2, 0>>, <<1, 1>>, <<1, 2>>>>,
    corners |-> << <<0, 0>>, <<-1, -1>>, <<0, 0>>, <<-1, 1>>, <<2, 0>>, <<3, -1>>,
                 <<2, 0>>, <<3, 1>>, <<1, 2>>, <<0, 3>>, <<1, 2>>, <<2, 3>> >>,
    r90 |-> TRUE, r180 |-> TRUE, chiral |-> FALSE, size |-> 5,
    orientation |-> 0 ]

\* class U (Pieces.py 293-305): shape and corners are the columns of the arrays.
U ==
  [ name |-> "U",
    shape |-> <<<<0, 0>>, <<0, 1>>, <<1, 1>>, <<2, 1>>, <<2, 0>>>>,
    corners |-> << <<0, 0>>, <<-1, -1>>, <<0, 0>>, <<1, -1>>, <<0, 1>>, <<-1, 2>>,
                 <<2, 1>>, <<3, 2>>, <<2, 0>>, <<1, -1>>, <<2, 0>>, <<3, -1>> >>,
    r90 |-> TRUE, r180 |-> TRUE, chiral |-> FALSE, size |-> 5,
    orientation |-> 0 ]

\* class V (Pieces.py 307-320): shape and corners are the columns of the arrays.
V ==
  [ name |-> "V",
    shape |-> <<<<0, 0>>, <<0, -1>>, <<1, 0>>, <<0, -2>>, <<2, 0>>>>,
    corners |-> << <<0, 0>>, <<-1, 1>>, <<0, -2>>, <<-1, -3>>, <<0, -2>>, <<1, -3>>,
                 <<2, 0>>, <<3, 1>>, <<2, 0>>, <<3, -1>> >>,
    r90 |-> TRUE, r180 |-> TRUE, chiral |-> FALSE, size |-> 5,
    orientation |-> 0 ]

\* class W (Pieces.py 322-335): shape and corners are the columns of the arrays.
W ==
  [ name |-> "W",
    shape |-> <<<<0, 0>>, <<-1, 0>>, <<-1, -1>>, <<-2, -1>>, <<-2, -2>>>>,
    corners |-> << <<0, 0>>, <<1, 1>>, <<0, 0>>, <<1, -1>>, <<-1, 0>>, <<-2, 1>>,
                 <<-1, -1>>, <<0, -2>>, <<-2, -1>>, <<-3, 0>>, <<-2, -2>>, <<-1, -3>>,
                 <<-2, -2>>, <<-3, -3>> >>,
    r90 |-> TRUE, r180 |-> TRUE, chiral |-> TRUE, size |-> 5,
    orientation |-> 0 ]

\* class X (Pieces.py 337-349): shape and corners are the columns of the arrays.
X ==
  [ name |-> "X",
    shape |-> <<<<1, 0>>, <<0, 1>>, <<1, 1>>, <<2, 1>>, <<1, 2>>>>,
    corners |-> << <<1, 0>>, <<0, -1>>, <<1, 0>>, <<2, -1>>, <<0, 1>>, <<-1, 0>>,
                 <<0, 1>>, <<-1, 2>>, <<1, 2>>, <<0, 3>>, <<1, 2>>, <<2, 3>>,
                 <<2, 1>>, <<3, 0>>, <<2, 1>>, <<3, 2>> >>,
    r90 |-> FALSE, r180 |-> FALSE, chiral |-> FALSE, size |-> 5,
    orientation |-> 0 ]

\* class Y (Pieces.py 351-363): shape and corners are the columns of the arrays.
Y ==
  [ name |-> "Y",
    shape |-> <<<<0, 0>>, <<0, 1>>, <<0, 2>>, <<0, 3>>, <<-1, 1>>>>,
    corners |-> << <<0, 0>>, <<1, -1>>, <<0, 0>>, <<-1, -1>>, <<-1, 1>>, <<-2, 0>>,
                 <<-1, 1>>, <<-2, 2>>, <<0, 3>>, <<1, 4>>, <<0, 3>>, <<-1, 4>> >>,
    r90 |-> TRUE, r180 |-> TRUE, chiral |-> TRUE, size |-> 5,
    orientation |-> 0 ]

\* class Z (Pieces.py 365-377): shape and corners are the columns of the arrays.
Z ==
  [ name |-> "Z",
    shape |-> <<<<0, 0>>, <<1, 0>>, <<1, 1>>, <<1, 2>>, <<2, 2>>>>,
    corners |-> << <<0, 0>>, <<-1, -1>>, <<0, 0>>, <<-1, 1>>, <<1, 0>>, <<2, -1>>,
                 <<1, 2>>, <<0, 3>>, <<2, 2>>, <<3, 3>>, <<2, 2>>, <<3, 1>> >>,
    r90 |-> TRUE, r180 |-> FALSE, chiral |-> TRUE, size |-> 5,
    orientation |-> 0 ]

\* class I4 (Pieces.py 379-391): shape and corners are the columns of the arrays.
I4 ==
  [ name |-> "I4",
    shape |-> <<<<0, 0>>, <<0, 1>>, <<0, 2>>, <<0, 3>>>>,
    corners |-> << <<0, 0>>, <<-1, -1>>, <<0, 0>>, <<1, -1>>, <<0, 3>>, <<-1, 4>>,
                 <<0, 3>>, <<1, 4>> >>,
    r90 |-> TRUE, r180 |-> FALSE, chiral |-> FALSE, size |-> 4,
    orientation |-> 0 ]

\* class L4 (Pieces.py 393-405): shape and corners are the columns of the arrays.
L4 ==
  [ name |-> "L4",
    shape |-> <<<<0, 0>>, <<1, 0>>, <<0, -1>>, <<0, -2>>>>,
    corners |-> << <<0, 0>>, <<-1, 1>>, <<1, 0>>, <<2, 1>>, <<1, 0>>, <<2, -1>>,
                 <<0, -2>>, <<-1, -3>>, <<0, -2>>, <<1, -3>> >>,
    r90 |-> TRUE, r180 |-> TRUE, chiral |-> TRUE, size |-> 4,
    orientation |-> 0 ]

\* class N4 (Pieces.py 407-420): shape and corners are the columns of the arrays.
N4 ==
  [ name |-> "N4",
    shape |-> <<<<0, 0>>, <<0, 1>>, <<-1, 1>>, <<-1, 2>>>>,
    corners |-> << <<0, 0>>, <<1, -1>>, <<0, 0>>, <<-1, -1>>, <<0, 1>>, <<1, 2>>,
                 <<-1, 1>>, <<-2, 0>>, <<-1, 2>>, <<0, 3>>, <<-1, 2>>, <<-2, 3>> >>,
    r90 |-> TRUE, r180 |-> FALSE, chiral |-> TRUE, size |-> 4,
    orientation |-> 0 ]

\* class O (Pieces.py 422-434): shape and corners are the columns of the arrays.
O ==
  [ name |-> "O",
    shape |-> <<<<0, 0>>, <<1, 0>>, <<0, 1>>, <<1, 1>>>>,
    corners |-> << <<0, 0>>, <<-1, -1>>, <<1, 0>>, <<2, -1>>, <<0, 1>>, <<-1, 2>>,
                 <<1, 1>>, <<2, 2>> >>,
    r90 |-> FALSE, r180 |-> FALSE, chiral |-> FALSE, size |-> 4,
    orientation |-> 0 ]

\* class T4 (Pieces.py 436-448): shape and corners are the columns of the arrays.
T4 ==
  [ name |-> "T4",
    shape |-> <<<<0, 0>>, <<1, 0>>, <<1, 1>>, <<2, 0>>>>,
    corners |-> << <<0, 0>>, <<-1, -1>>, <<2, 0>>, <<3, -1>>, <<1, 1>>, <<0, 2>>,
                 <<1, 1>>, <<2, 2>> >>,
    r90 |-> TRUE, r180 |-> TRUE, chiral |-> FALSE, size |-> 4,
    orientation |-> 0 ]

\* class I3 (Pieces.py 450-462): shape and corners are the columns of the arrays.
I3 ==
  [ name |-> "I3",
    shape |-> <<<<0, 0>>, <<0, 1>>, <<0, 2>>>>,
    corners |-> << <<0, 0>>, <<-1, -1>>, <<0, 0>>, <<1, -1>>, <<0, 2>>, <<-1, 3>>,
                 <<0, 2>>, <<1, 3>> >>,
    r90 |-> TRUE, r180 |-> FALSE, chiral |-> FALSE, size |-> 3,
    orientation |-> 0 ]

\* class V3 (Pieces.py 464-476): shape and corners are the columns of the arrays.
V3 ==
  [ name |-> "V3",
    shape |-> <<<<0, 0>>, <<-1, 0>>, <<-1, -1>>>>,
    corners |-> << <<0, 0>>, <<1, 1>>, <<0, 0>>, <<1, -1>>, <<-1, 0>>, <<-2, 1>>,
                 <<-1, -1>>, <<0, -2>>, <<-1, -1>>, <<-2, -2>> >>,
    r90 |-> TRUE, r180 |-> TRUE, chiral |-> FALSE, size |-> 3,
    orientation |-> 0 ]

\* class Two (Pieces.py 478-490): shape and corners are the columns of the arrays.
Two ==
  [ name |-> "Two",
    shape |-> <<<<0, 0>>, <<0, 1>>>>,
    corners |-> << <<0, 0>>, <<-1, -1>>, <<0, 0>>, <<1, -1>>, <<0, 1>>, <<-1, 2>>,
                 <<0, 1>>, <<1, 2>> >>,
    r90 |-> TRUE, r180 |-> FALSE, chiral |-> FALSE, size |-> 2,
    orientation |-> 0 ]

\* class One (Pieces.py 492-504): shape and corners are the columns of the arrays.
One ==
  [ name |-> "One",
    shape |-> <<<<0, 0>>>>,
    corners |-> << <<0, 0>>, <<-1, -1>>, <<0, 0>>, <<1, -1>>, <<0, 0>>, <<1, 1>>,
                 <<0, 0>>, <<-1, 1>> >>,
    r90 |-> FALSE, r180 |-> FALSE, chiral |-> FALSE, size |-> 1,
    orientation |-> 0 ]

\* Gamestate.sortedHand's order of the 21 names (Gamestate.py 286-290).
sortednames ==
  << "F", "I", "L", "N", "P", "T", "U", "V", "W", "X", "Y", "Z",
     "I4", "L4", "N4", "O", "T4", "I3", "V3", "Two", "One" >>

Names == { sortednames[i] : i \in 1..Len(sortednames) }

\* initRefHand (Gamestate.py 12-35): one fresh instance of each class.
initRefHand ==
  [ n \in Names |->
      CASE n = "F" -> F [] n = "I" -> I [] n = "L" -> L [] n = "N" -> N
        [] n = "P" -> P [] n = "T" -> T [] n = "U" -> U [] n = "V" -> V
        [] n = "W" -> W [] n = "X" -> X [] n = "Y" -> Y [] n = "Z" -> Z
        [] n = "I4" -> I4 [] n = "L4" -> L4 [] n = "N4" -> N4 [] n = "O" -> O
        [] n = "T4" -> T4 [] n = "I3" -> I3 [] n = "V3" -> V3
        [] n = "Two" -> Two [] n = "One" -> One ]

(***************************************************************************)
(* Pieces.py: the orientation engine.  An orientation code has 3 bits.     *)
(***************************************************************************)

\* The number of orientation codes (3 bits, Pieces.py 25-30).
NumCodes == 8

Bit(n, k) == (n \div (2 ^ k)) % 2

\* Python's ^ and & on orientation codes and masks.
BitXor(a, b) ==
  ((Bit(a, 0) + Bit(b, 0)) % 2) + 2 * ((Bit(a, 1) + Bit(b, 1)) % 2)
    + 4 * ((Bit(a, 2) + Bit(b, 2)) % 2)

BitAnd(a, b) ==
  Bit(a, 0) * Bit(b, 0) + 2 * Bit(a, 1) * Bit(b, 1) + 4 * Bit(a, 2) * Bit(b, 2)

\* np.dot(mat, arr) of a 2x2 matrix (given by rows) and a 2xn array.
Dot(mat, arr) ==
  [ i \in 1..Len(arr) |->
      << mat[1][1] * arr[i][1] + mat[1][2] * arr[i][2],
         mat[2][1] * arr[i][1] + mat[2][2] * arr[i][2] >> ]

\* Piece.reduceOrientation (Pieces.py 179-187): the first block, on code o.
reduceFirst(p, o) ==
  IF p.r90 /\ p.r180 /\ ~p.chiral
    THEN (CASE o = 1 -> 0 [] o = 3 -> 2 [] o = 5 -> 4 [] o = 7 -> 6 [] OTHER -> o)
  ELSE o

\* Piece.reduceOrientation (Pieces.py 188-196): the second block.
reduceSecond(p, o) ==
  IF p.r90 /\ ~p.r180 /\ p.chiral
    THEN (CASE o = 2 -> 0 [] o = 3 -> 1 [] o = 6 -> 4 [] o = 7 -> 5 [] OTHER -> o)
  ELSE o

\* Piece.reduceOrientation (Pieces.py 197-203): the third block.
reduceThird(p, o) ==
  IF p.r90 /\ ~p.r180 /\ ~p.chiral
    THEN (CASE o \in {1, 2, 3} -> 0 [] o \in {5, 6, 7} -> 4 [] OTHER -> o)
  ELSE o

\* Piece.reduceOrientation (Pieces.py 177-203): the three blocks run in turn.
reduceOrientation(p) ==
  [p EXCEPT !.orientation = reduceThird(p, reduceSecond(p, reduceFirst(p, @)))]

\* The orientation bits after a flip (Pieces.py 44-46, 62-64): the third bit
\* is flipped, then the second when the piece is (is not) aligned with mask 0b100.
flipBits(o, aligned) ==
  IF (BitAnd(o, 4) # 0) = aligned THEN BitXor(o, 2) ELSE o

\* flipH with the alignment read off the third bit: a faulty variant.
flipHMasked(p) ==
  reduceOrientation([p EXCEPT !.corners = Dot(<< <<-1, 0>>, <<0, 1>> >>, @),
                              !.shape = Dot(<< <<-1, 0>>, <<0, 1>> >>, @),
                              !.orientation = IF BitAnd(BitXor(@, 1), 1) # 0
                                                THEN BitXor(BitXor(@, 1), 2)
                                              ELSE BitXor(@, 1)])

\* Piece.flipH (Pieces.py 32-48).
flipH(p) ==
  reduceOrientation([p EXCEPT !.corners = Dot(<< <<-1, 0>>, <<0, 1>> >>, @),
                              !.shape = Dot(<< <<-1, 0>>, <<0, 1>> >>, @),
                              !.orientation = flipBits(BitXor(@, 1), TRUE)])

\* Piece.flipV (Pieces.py 50-66).
flipV(p) ==
  reduceOrientation([p EXCEPT !.corners = Dot(<< <<1, 0>>, <<0, -1>> >>, @),
                              !.shape = Dot(<< <<1, 0>>, <<0, -1>> >>, @),
                              !.orientation = flipBits(BitXor(@, 1), FALSE)])

\* Piece.rotate (Pieces.py 71-112): its return value.
rotateReturns(p, turns) ==
  \/ turns = 1 /\ p.r90
  \/ turns = 2 /\ p.r180
  \/ turns = 3 /\ p.r90

\* rotate with the second bit alone flipped for a piece lying on its side: a
\* faulty variant.
rotateSkewed(p, turns) ==
  IF turns = 1 /\ p.r90
    THEN reduceOrientation(
           [p EXCEPT !.corners = Dot(<< <<0, 1>>, <<-1, 0>> >>, @),
                     !.shape = Dot(<< <<0, 1>>, <<-1, 0>> >>, @),
                     !.orientation = IF BitAnd(@, 4) = 0 THEN BitXor(@, 4)
                                     ELSE BitXor(@, 2)])
  ELSE IF turns = 2 /\ p.r180
    THEN reduceOrientation(
           [p EXCEPT !.corners = Dot(<< <<-1, 0>>, <<0, -1>> >>, @),
                     !.shape = Dot(<< <<-1, 0>>, <<0, -1>> >>, @),
                     !.orientation = BitXor(@, 2)])
  ELSE IF turns = 3 /\ p.r90
    THEN reduceOrientation(
           [p EXCEPT !.corners = Dot(<< <<0, -1>>, <<1, 0>> >>, @),
                     !.shape = Dot(<< <<0, -1>>, <<1, 0>> >>, @),
                     !.orientation = IF BitAnd(@, 4) # 0 THEN BitXor(@, 4)
                                     ELSE BitXor(@, 6)])
  ELSE p

\* Piece.rotate (Pieces.py 71-112): the piece after the call.
rotate(p, turns) ==
  IF turns = 1 /\ p.r90
    THEN reduceOrientation(
           [p EXCEPT !.corners = Dot(<< <<0, 1>>, <<-1, 0>> >>, @),
                     !.shape = Dot(<< <<0, 1>>, <<-1, 0>> >>, @),
                     !.orientation = IF BitAnd(@, 4) = 0 THEN BitXor(@, 4)
                                     ELSE BitXor(@, 6)])
  ELSE IF turns = 2 /\ p.r180
    THEN reduceOrientation(
           [p EXCEPT !.corners = Dot(<< <<-1, 0>>, <<0, -1>> >>, @),
                     !.shape = Dot(<< <<-1, 0>>, <<0, -1>> >>, @),
                     !.orientation = BitXor(@, 2)])
  ELSE IF turns = 3 /\ p.r90
    THEN reduceOrientation(
           [p EXCEPT !.corners = Dot(<< <<0, -1>>, <<1, 0>> >>, @),
                     !.shape = Dot(<< <<0, -1>>, <<1, 0>> >>, @),
                     !.orientation = IF BitAnd(@, 4) # 0 THEN BitXor(@, 4)
                                     ELSE BitXor(@, 6)])
  ELSE p

\* Piece.translate (Pieces.py 114-120).
translate(p, x, y) ==
  [p EXCEPT !.shape = [i \in 1..Len(p.shape) |-> <<p.shape[i][1] + x, p.shape[i][2] + y>>],
            !.corners = [i \in 1..Len(p.corners) |->
                           <<p.corners[i][1] + x, p.corners[i][2] + y>>]]

\* Piece.setOrientation (Pieces.py 124-125): the flip taken when the flip bits differ.
setOrientationFlips(p, new_orientation) ==
  BitAnd(p.orientation, 1) # BitAnd(new_orientation, 1)

\* Piece.setOrientation (Pieces.py 126-128): the while loop and the final reduce.
\* The next code is a function of the current one, so a target that is not met
\* within NumCodes rotations is never met: the loop then runs forever.
RECURSIVE setOrientationLoop(_, _, _)
setOrientationLoop(p, new_orientation, n) ==
  IF p.orientation = new_orientation
    THEN [returns |-> TRUE, piece |-> reduceOrientation(p), rotations |-> n]
  ELSE IF n >= NumCodes
    THEN [returns |-> FALSE, piece |-> p, rotations |-> n]
  ELSE setOrientationLoop(rotate(p, 1), new_orientation, n + 1)

\* Piece.setOrientation (Pieces.py 122-128), as one call: whether it returns,
\* the piece it leaves and the number of rotate(1) calls it made.
setOrientation(p, new_orientation) ==
  setOrientationLoop(IF setOrientationFlips(p, new_orientation) THEN flipH(p) ELSE p,
                     new_orientation, 0)

(***************************************************************************)
(* Gamestate.py: set-up.                                                   *)
(***************************************************************************)

\* Gamestate.boardsize (Gamestate.py 87; startCorner and initBoard repeat it).
boardsize == 20

None == "None"

\* initHand (Gamestate.py 37-60).
initHand == [n \in Names |-> TRUE]

\* startCorner (Gamestate.py 63-75): a list holding one 2x2 array, given by its
\* two columns.
startCorner(color) ==
  CASE color = 1 -> << << <<-1, -1>>, <<0, 0>> >> >>
    [] color = 2 -> << << <<-1, boardsize>>, <<0, boardsize - 1>> >> >>
    [] color = 3 -> << << <<boardsize, boardsize>>, <<boardsize - 1, boardsize - 1>> >> >>
    [] color = 4 -> << << <<boardsize, -1>>, <<boardsize - 1, 0>> >> >>
    [] OTHER -> << >>

\* initBoard (Gamestate.py 78-81): board[y][x].
initBoard == [y \in 0..(boardsize - 1) |-> [x \in 0..(boardsize - 1) |-> 0]]

\* splitCornerArray (BlokusFunctions): the 2x2 arrays of a 2x2c corner array, as
\* views of it.
splitCornerArray(corners) ==
  [i \in 1..(Len(corners) \div 2) |-> <<corners[2 * i - 1], corners[2 * i]>>]

Min(S) == CHOOSE m \in S : \A n \in S : m <= n

Max(S) == CHOOSE m \in S : \A n \in S : m >= n

\* findExtremes (BlokusFunctions): xmin, xmax, ymin, ymax of a shape.
findExtremes(shape) ==
  << Min({shape[i][1] : i \in 1..Len(shape)}), Max({shape[i][1] : i \in 1..Len(shape)}),
     Min({shape[i][2] : i \in 1..Len(shape)}), Max({shape[i][2] : i \in 1..Len(shape)}) >>

(***************************************************************************)
(* Gamestate.py: a Gamestate is a record of the addresses of its mutable   *)
(* objects in the heap and of its two integers.                            *)
(***************************************************************************)

\* Gamestate.getHand (Gamestate.py 272-280): the address of the hand dict.
getHand(gs, color) ==
  CASE color = 1 -> gs.blue [] color = 2 -> gs.yellow
    [] color = 3 -> gs.red [] color = 4 -> gs.green

\* Gamestate.getCorners (Gamestate.py 297-305): the address of the corner list.
getCorners(gs, color) ==
  CASE color = 1 -> gs.bcorners [] color = 2 -> gs.ycorners
    [] color = 3 -> gs.rcorners [] color = 4 -> gs.gcorners

\* The turn handed round the other way: a faulty variant of advanceTurn.
advanceTurnBack(gs) ==
  [gs EXCEPT !.turn = IF gs.turn - 1 = 0 THEN 4 ELSE gs.turn - 1]

\* Gamestate.advanceTurn (Gamestate.py 266-269).
advanceTurn(gs) ==
  [gs EXCEPT !.turn = IF gs.turn + 1 = 5 THEN 1 ELSE gs.turn + 1]

\* The swapped corner built in moveCheck, updateCorners and findPieceMoves
\* (Gamestate.py 188, 311, 393).
inv(cur) == <<cur[2], cur[1]>>

OnBoard(x, y) == x >= 0 /\ y >= 0 /\ x < boardsize /\ y < boardsize

\* nears without the neighbour to the west: a faulty variant.
nearsNoWest(x, y) ==
  (IF x < boardsize - 1 THEN {<<x + 1, y>>} ELSE {})
    \cup (IF y < boardsize - 1 THEN {<<x, y + 1>>} ELSE {})
    \cup (IF y > 0 THEN {<<x, y - 1>>} ELSE {})

\* Gamestate.moveConflicts (Gamestate.py 232-248): the on-board neighbours of a
\* tile.  The loop of lines 251-255 rebinds only its own loop variable, so no
\* neighbour is ever taken out.
nears(x, y) ==
  (IF x < boardsize - 1 THEN {<<x + 1, y>>} ELSE {})
    \cup (IF y < boardsize - 1 THEN {<<x, y + 1>>} ELSE {})
    \cup (IF x > 0 THEN {<<x - 1, y>>} ELSE {})
    \cup (IF y > 0 THEN {<<x, y - 1>>} ELSE {})

\* tileConflicts without the check of the neighbours: a faulty variant, under
\* which pieces of one color may lie edge to edge.
tileConflictsNoNears(board, color, x, y) ==
  IF x < 0 \/ y < 0 \/ x >= boardsize \/ y >= boardsize THEN TRUE
  ELSE IF board[y][x] # 0 THEN TRUE
  ELSE FALSE

\* Gamestate.moveConflicts (Gamestate.py 220-261): the checks of the tile (x, y)
\* on a board, for mover color.
tileConflicts(board, color, x, y) ==
  IF x < 0 \/ y < 0 \/ x >= boardsize \/ y >= boardsize THEN TRUE
  ELSE IF board[y][x] # 0 THEN TRUE
  ELSE \E c \in nears(x, y) : board[c[2]][c[1]] = color

\* Gamestate.moveConflicts (Gamestate.py 207-263): the loop over the tiles.
moveConflicts(board, color, p) ==
  \E i \in 1..p.size : tileConflicts(board, color, p.shape[i][1], p.shape[i][2])

\* Gamestate.moveCheck (Gamestate.py 183-197): some corner of the piece, swapped,
\* is in the mover's corner list.
diagonal(bcorners, pcorners) ==
  \E i \in 1..(Len(pcorners) \div 2) :
    \E j \in 1..Len(bcorners) : bcorners[j] = inv(splitCornerArray(pcorners)[i])

\* moveCheck without the search for a matching corner: a faulty variant, under
\* which a piece may be placed anywhere it conflicts with nothing.
moveCheckConflictsOnly(board, bcorners, color, piece) ==
  IF ~moveConflicts(board, color, piece) THEN TRUE ELSE FALSE

\* Gamestate.moveCheck (Gamestate.py 181-203).
moveCheck(board, bcorners, color, piece) ==
  IF ~diagonal(bcorners, piece.corners) THEN FALSE
  ELSE IF ~moveConflicts(board, color, piece) THEN TRUE
  ELSE FALSE

\* Gamestate.colorSet (Gamestate.py 334-338): the loop, which stops at the first
\* tile that is already set.
RECURSIVE colorSetLoop(_, _, _, _)
colorSetLoop(board, coords, color, i) ==
  IF i > Len(coords) THEN board
  ELSE IF board[coords[i][2]][coords[i][1]] # 0 THEN board
  ELSE colorSetLoop([board EXCEPT ![coords[i][2]][coords[i][1]] = color],
                    coords, color, i + 1)

\* colorSet on a cleared board: a faulty variant, which loses the tiles set
\* before.
colorSetCleared(board, coords, color) ==
  IF color \notin 1..4 THEN board
  ELSE colorSetLoop([y \in 0..(boardsize - 1) |-> [x \in 0..(boardsize - 1) |-> 0]],
                    coords, color, 1)

\* Gamestate.colorSet (Gamestate.py 331-338): the board after the call.
colorSet(board, coords, color) ==
  IF color \notin 1..4 THEN board ELSE colorSetLoop(board, coords, color, 1)

RemoveAt(s, j) == [k \in 1..(Len(s) - 1) |-> IF k < j THEN s[k] ELSE s[k + 1]]

\* Gamestate.updateCorners (Gamestate.py 313-317): the first entry equal to
\* the swapped corner is deleted; hits are the indices of the equal entries.
obliterate(oldList, hits) ==
  IF hits # {} THEN RemoveAt(oldList, Min(hits)) ELSE oldList

\* Gamestate.updateCorners (Gamestate.py 318-321): a corner with an entry -1 or
\* boardsize is skipped, one that obliterated nothing is appended.
keepCorner(oldList, cur, obliterated) ==
  IF -1 \in {cur[1][1], cur[1][2], cur[2][1], cur[2][2]}
       \/ boardsize \in {cur[1][1], cur[1][2], cur[2][1], cur[2][2]}
    THEN oldList
  ELSE IF ~obliterated THEN Append(oldList, cur)
  ELSE oldList

\* Gamestate.updateCorners (Gamestate.py 311-321): the body of the loop.
updateCornersStep(oldList, cur, hits) ==
  keepCorner(obliterate(oldList, hits), cur, hits # {})

\* Gamestate.updateCorners (Gamestate.py 310-321): the loop over the corners.
RECURSIVE updateCornersLoop(_, _, _)
updateCornersLoop(oldList, curs, i) ==
  IF i > Len(curs) THEN oldList
  ELSE updateCornersLoop(
         updateCornersStep(oldList, curs[i],
                           {j \in 1..Len(oldList) : oldList[j] = inv(curs[i])}),
         curs, i + 1)

\* Gamestate.updateCorners (Gamestate.py 308-321): the corner list after the call.
updateCorners(oldList, corners) ==
  updateCornersLoop(oldList, splitCornerArray(corners), 1)

\* The name written one entry further on: a faulty variant of setLastPlayed.
setLastPlayedNext(lastPlayed, name, color) ==
  [i \in 1..4 |-> IF (color % 4) + 1 = i THEN name ELSE lastPlayed[i]]

\* Gamestate.setLastPlayed (Gamestate.py 324-327): the list after the call.
setLastPlayed(lastPlayed, name, color) ==
  [i \in 1..4 |-> IF color = i THEN name ELSE lastPlayed[i]]

\* A rejection that hands the turn on: a faulty variant of rejected.
rejectedAdvancing(h, gs, rf) ==
  [ends |-> "rejected", heap |-> h, ref |-> rf, game |-> advanceTurn(gs)]

\* Gamestate.update (Gamestate.py 143, 160): return False, with nothing of the
\* game written.
rejected(h, gs, rf) ==
  [ends |-> "rejected", heap |-> h, ref |-> rf, game |-> gs]

\* updateWrites without the write to the hand: a faulty variant.
updateWritesKeepHand(h, gs, name, piece) ==
  [h EXCEPT ![gs.board] = colorSet(@, piece.shape, gs.turn),
            ![getCorners(gs, gs.turn)] = updateCorners(@, piece.corners),
            ![gs.lastPlayed] = setLastPlayed(@, name, gs.turn)]

\* Gamestate.update (Gamestate.py 162-178): the heap once the placement is
\* written: the board, the mover's corner list, hand and lastPlayed entry.
updateWrites(h, gs, name, piece) ==
  [h EXCEPT ![gs.board] = colorSet(@, piece.shape, gs.turn),
            ![getCorners(gs, gs.turn)] = updateCorners(@, piece.corners),
            ![getHand(gs, gs.turn)][name] = FALSE,
            ![gs.lastPlayed] = setLastPlayed(@, name, gs.turn)]

\* Gamestate.update (Gamestate.py 158-178), with the piece oriented and placed.
updatePlaced(h, gs, rf, name, piece) ==
  IF ~moveCheck(h[gs.board], h[getCorners(gs, gs.turn)], gs.turn, piece)
    THEN rejected(h, gs, [rf EXCEPT ![name] = piece])
  ELSE [ends |-> "placed", heap |-> updateWrites(h, gs, name, piece),
        ref |-> [rf EXCEPT ![name] = piece],
        game |-> advanceTurn([gs EXCEPT !.passCount = 0])]

\* Gamestate.update (Gamestate.py 150-156): the piece moved so that the minimum
\* of its extremes is at (move_xmin, move_ymin).
updateTranslate(piece, piece_extremes, move_xmin, move_ymin) ==
  translate(piece, move_xmin - piece_extremes[1], move_ymin - piece_extremes[3])

\* Gamestate.update (Gamestate.py 146-178), once setOrientation has run (so).
updateOriented(h, gs, rf, move, so) ==
  IF ~so.returns
    THEN [ends |-> "diverges", heap |-> h, game |-> gs,
          ref |-> [rf EXCEPT ![move[1]] = so.piece]]
  ELSE updatePlaced(h, gs, rf, move[1],
                    updateTranslate(so.piece, findExtremes(so.piece.shape),
                                    move[3], move[4]))

\* update without the test of the hand: a faulty variant.
updateUnchecked(h, gs, rf, move) ==
  IF Len(move) # 4
    THEN [ends |-> "pass", heap |-> h, ref |-> rf,
          game |-> advanceTurn([gs EXCEPT !.passCount = gs.passCount + 1])]
  ELSE updateOriented(h, gs, rf, move, setOrientation(rf[move[1]], move[2]))

\* Gamestate.update (Gamestate.py 131-178) by Gamestate gs on heap h with
\* reference hand rf: the heap, the Gamestate and the reference hand it leaves,
\* and how the call ends: "pass", "placed" (both return None), "rejected"
\* (returns False) or "diverges" (setOrientation never returns).
update(h, gs, rf, move) ==
  IF Len(move) # 4
    THEN [ends |-> "pass", heap |-> h, ref |-> rf,
          game |-> advanceTurn([gs EXCEPT !.passCount = gs.passCount + 1])]
  ELSE IF ~h[getHand(gs, gs.turn)][move[1]]
    THEN rejected(h, gs, rf)
  ELSE updateOriented(h, gs, rf, move, setOrientation(rf[move[1]], move[2]))

\* isTerminal with the count off by one: a faulty variant.
isTerminalEarly(gs) == IF gs.passCount >= 3 THEN TRUE ELSE FALSE

\* Gamestate.isTerminal (Gamestate.py 490-493).
isTerminal(gs) == IF gs.passCount >= 4 THEN TRUE ELSE FALSE

(***************************************************************************)
(* Gamestate.py: move enumeration.  The accumulator of the traversal holds *)
(* the piece p as it is left, rtn (the list built so far) and, beside the  *)
(* code's data, checked: for each tuple of rtn the tiles that              *)
(* moveConflicts accepted when the tuple was appended, and evaluated: for  *)
(* each call of findPieceMoves the piece it was called on.                 *)
(***************************************************************************)

Cells(shape) == {shape[i] : i \in 1..Len(shape)}

\* The tuple with the coordinates in the other order: a faulty variant of
\* moveTuple.
moveTupleSwapped(p, piece_xmin, piece_ymin) ==
  <<p.name, p.orientation, piece_ymin, piece_xmin>>

\* The tuple appended by findPieceMoves (Gamestate.py 408).
moveTuple(p, piece_xmin, piece_ymin) ==
  <<p.name, p.orientation, piece_xmin, piece_ymin>>

\* Gamestate.findPieceMoves (Gamestate.py 402-408): the piece, moved to q, is
\* checked and, when nothing conflicts, its tuple is appended.
findPieceMovesCheck(st, q, piece_xmin, piece_ymin, conflicts) ==
  [p |-> q, piece_xmin |-> piece_xmin, piece_ymin |-> piece_ymin,
   rtn |-> IF ~conflicts THEN Append(st.rtn, moveTuple(q, piece_xmin, piece_ymin))
           ELSE st.rtn,
   checked |-> IF ~conflicts THEN Append(st.checked, Cells(q.shape))
               ELSE st.checked]

\* Gamestate.findPieceMoves (Gamestate.py 400-408): the piece is moved by
\* (xdif, ydif).
findPieceMovesMove(board, color, st, q, xdif, ydif) ==
  findPieceMovesCheck(st, q, st.piece_xmin + xdif, st.piece_ymin + ydif,
                      moveConflicts(board, color, q))

\* Gamestate.findPieceMoves (Gamestate.py 393-408): the body of the loops for
\* the piece corner pc and the swapped board corner iv.
findPieceMovesPair(board, color, st, pc, iv) ==
  IF /\ pc[2][1] - pc[1][1] = iv[2][1] - iv[1][1]
     /\ pc[2][2] - pc[1][2] = iv[2][2] - iv[1][2]
    THEN findPieceMovesMove(board, color, st,
                            translate(st.p, iv[1][1] - pc[1][1], iv[1][2] - pc[1][2]),
                            iv[1][1] - pc[1][1], iv[1][2] - pc[1][2])
  ELSE st

\* Gamestate.findPieceMoves (Gamestate.py 388-408): the two nested loops, run
\* from the k-th pair (pc, bc) on.  translate works in place, so pc, a view of
\* p.corners, is read as the piece stands.
RECURSIVE findPieceMovesLoop(_, _, _, _, _)
findPieceMovesLoop(board, bcorners, color, st, k) ==
  IF Len(bcorners) = 0 \/ k > (Len(st.p.corners) \div 2) * Len(bcorners) THEN st
  ELSE findPieceMovesLoop(board, bcorners, color,
         findPieceMovesPair(board, color, st,
           splitCornerArray(st.p.corners)[((k - 1) \div Len(bcorners)) + 1],
           inv(bcorners[((k - 1) % Len(bcorners)) + 1])),
         k + 1)

\* Gamestate.findPieceMoves (Gamestate.py 379-410), started from the extremes
\* of the shape.
findPieceMovesFrom(board, bcorners, color, p, piece_extremes) ==
  findPieceMovesLoop(board, bcorners, color,
    [p |-> p, piece_xmin |-> piece_extremes[1], piece_ymin |-> piece_extremes[3],
     rtn |-> << >>, checked |-> << >>], 1)

\* Gamestate.findPieceMoves (Gamestate.py 379-410).
findPieceMoves(board, bcorners, color, p) ==
  findPieceMovesFrom(board, bcorners, color, p, findExtremes(p.shape))

\* rtn.extend(found) (Gamestate.py 355, 360, 363, 367, 372, 375).
extendWith(acc, found) ==
  [p |-> found.p, rtn |-> acc.rtn \o found.rtn,
   checked |-> acc.checked \o found.checked, evaluated |-> acc.evaluated]

\* findPieceMoves is called on the piece as transformed to q.
evaluate(acc, q) ==
  [acc EXCEPT !.evaluated =
     Append(@, [name |-> q.name, orientation |-> q.orientation,
                cells |-> Cells(q.shape)])]

\* rtn.extend(self.findPieceMoves(piece)) on the piece as transformed to q.
extend(board, bcorners, color, acc, q) ==
  extendWith(evaluate(acc, q), findPieceMoves(board, bcorners, color, q))

\* piece.rotate(1); rtn.extend(self.findPieceMoves(piece))
\* (Gamestate.py 359-360, 362-363, 371-372, 374-375).
rotateAndFind(board, bcorners, color, acc) ==
  extend(board, bcorners, color, acc, rotate(acc.p, 1))

\* rotateThrough with one rotation less for the kinds turned three times: a
\* faulty variant.
rotateThroughTwice(board, bcorners, color, acc) ==
  IF acc.p.r90 /\ acc.p.r180
    THEN rotateAndFind(board, bcorners, color,
           rotateAndFind(board, bcorners, color, acc))
  ELSE IF acc.p.r90 /\ ~acc.p.r180
    THEN rotateAndFind(board, bcorners, color, acc)
  ELSE acc

\* Gamestate.listMoves (Gamestate.py 357-363 and 369-375): the rotations tried
\* after the first orientation and again after the flip.
rotateThrough(board, bcorners, color, acc) ==
  IF acc.p.r90 /\ acc.p.r180
    THEN rotateAndFind(board, bcorners, color,
           rotateAndFind(board, bcorners, color,
             rotateAndFind(board, bcorners, color, acc)))
  ELSE IF acc.p.r90 /\ ~acc.p.r180
    THEN rotateAndFind(board, bcorners, color, acc)
  ELSE acc

\* Gamestate.listMoves (Gamestate.py 365-375): the flipped orientations.
flipThrough(board, bcorners, color, acc) ==
  IF acc.p.chiral
    THEN rotateThrough(board, bcorners, color,
                       extend(board, bcorners, color, acc, flipV(acc.p)))
  ELSE acc

\* Gamestate.listMoves (Gamestate.py 354-375): the body of the loop, for one
\* piece of the sorted hand.
pieceMoves(board, bcorners, color, acc) ==
  flipThrough(board, bcorners, color,
    rotateThrough(board, bcorners, color,
      extend(board, bcorners, color, acc, acc.p)))

\* Gamestate.sortedHand (Gamestate.py 283-294): the names of the pieces it
\* returns, in order.
RECURSIVE sortedHandFrom(_, _)
sortedHandFrom(hand, i) ==
  IF i > Len(sortednames) THEN << >>
  ELSE IF hand[sortednames[i]] THEN <<sortednames[i]>> \o sortedHandFrom(hand, i + 1)
  ELSE sortedHandFrom(hand, i + 1)

sortedHand(hand) == sortedHandFrom(hand, 1)

\* Gamestate.listMoves (Gamestate.py 354-376): the piece of the reference hand
\* is left as the traversal left it.
listMovesKeep(st, name, a) ==
  [ref |-> [st.ref EXCEPT ![name] = a.p], rtn |-> a.rtn, checked |-> a.checked,
   evaluated |-> a.evaluated]

\* Gamestate.listMoves (Gamestate.py 354-376): the loop over the sorted hand
\* from its i-th piece on; the pieces are those of the reference hand.
RECURSIVE listMovesLoop(_, _, _, _, _, _)
listMovesLoop(board, bcorners, color, names, st, i) ==
  IF i > Len(names) THEN st
  ELSE listMovesLoop(board, bcorners, color, names,
         listMovesKeep(st, names[i],
           pieceMoves(board, bcorners, color,
                      [p |-> st.ref[names[i]], rtn |-> st.rtn,
                       checked |-> st.checked, evaluated |-> st.evaluated])),
         i + 1)

\* Gamestate.listMoves (Gamestate.py 341-376) by Gamestate gs: the list it
\* returns and the reference hand it leaves.
listMoves(h, gs, rf) ==
  IF (\A n \in Names : ~h[getHand(gs, gs.turn)][n])
       \/ Len(h[getCorners(gs, gs.turn)]) = 0
    THEN [ref |-> rf, rtn |-> << >>, checked |-> << >>, evaluated |-> << >>]
  ELSE listMovesLoop(h[gs.board], h[getCorners(gs, gs.turn)], gs.turn,
                     sortedHand(h[getHand(gs, gs.turn)]),
                     [ref |-> rf, rtn |-> << >>, checked |-> << >>,
                      evaluated |-> << >>], 1)

(***************************************************************************)
(* canMove goes through the hand and the orientations as listMoves does    *)
(* and returns at the first placement that does not conflict.  A result    *)
(* holds the piece as it was left and found, TRUE when the call has        *)
(* returned True.                                                          *)
(***************************************************************************)

\* A faulty variant of canFindPieceMovesMove that takes every matching corner
\* for a move.
canFindPieceMovesMoveAny(board, color, q) ==
  [p |-> q, found |-> TRUE]

\* Gamestate.canFindPieceMoves (Gamestate.py 478-483): the piece, moved to q,
\* is checked.
canFindPieceMovesMove(board, color, q) ==
  [p |-> q, found |-> ~moveConflicts(board, color, q)]

\* Gamestate.canFindPieceMoves (Gamestate.py 467-483): the body of the loops
\* for the piece corner pc and the swapped board corner iv.
canFindPieceMovesPair(board, color, st, pc, iv) ==
  IF /\ pc[2][1] - pc[1][1] = iv[2][1] - iv[1][1]
     /\ pc[2][2] - pc[1][2] = iv[2][2] - iv[1][2]
    THEN canFindPieceMovesMove(board, color,
           translate(st.p, iv[1][1] - pc[1][1], iv[1][2] - pc[1][2]))
  ELSE st

\* Gamestate.canFindPieceMoves (Gamestate.py 462-485): the two nested loops,
\* run from the k-th pair (pc, bc) on and left at the first move found.
RECURSIVE canFindPieceMovesLoop(_, _, _, _, _)
canFindPieceMovesLoop(board, bcorners, color, st, k) ==
  IF st.found \/ Len(bcorners) = 0
       \/ k > (Len(st.p.corners) \div 2) * Len(bcorners) THEN st
  ELSE canFindPieceMovesLoop(board, bcorners, color,
         canFindPieceMovesPair(board, color, st,
           splitCornerArray(st.p.corners)[((k - 1) \div Len(bcorners)) + 1],
           inv(bcorners[((k - 1) % Len(bcorners)) + 1])),
         k + 1)

\* Gamestate.canFindPieceMoves (Gamestate.py 456-486).
canFindPieceMoves(board, bcorners, color, p) ==
  canFindPieceMovesLoop(board, bcorners, color, [p |-> p, found |-> FALSE], 1)

\* if self.canFindPieceMoves(piece): return True, on the piece as transformed
\* to q (Gamestate.py 427, 433, 437, 442, 447, 451); nothing more is done once
\* canMove has returned.
canFind(board, bcorners, color, acc, q) ==
  IF acc.found THEN acc ELSE canFindPieceMoves(board, bcorners, color, q)

\* piece.rotate(1); if self.canFindPieceMoves(piece): return True
\* (Gamestate.py 432-434, 436-438, 446-448, 450-452).
canRotateAndFind(board, bcorners, color, acc) ==
  IF acc.found THEN acc
  ELSE canFind(board, bcorners, color, acc, rotate(acc.p, 1))

\* Gamestate.canMove (Gamestate.py 430-438 and 444-452): the rotations tried
\* after the first orientation and again after the flip.
canRotateThrough(board, bcorners, color, acc) ==
  IF acc.found THEN acc
  ELSE IF acc.p.r90 /\ acc.p.r180
    THEN canRotateAndFind(board, bcorners, color,
           canRotateAndFind(board, bcorners, color,
             canRotateAndFind(board, bcorners, color, acc)))
  ELSE IF acc.p.r90 /\ ~acc.p.r180
    THEN canRotateAndFind(board, bcorners, color, acc)
  ELSE acc

\* Gamestate.canMove (Gamestate.py 440-452): the flipped orientations.
canFlipThrough(board, bcorners, color, acc) ==
  IF acc.found THEN acc
  ELSE IF acc.p.chiral
    THEN canRotateThrough(board, bcorners, color,
                          canFind(board, bcorners, color, acc, flipV(acc.p)))
  ELSE acc

\* Gamestate.canMove (Gamestate.py 426-452): the body of the loop, for one
\* piece of the sorted hand.
canPieceMoves(board, bcorners, color, p) ==
  canFlipThrough(board, bcorners, color,
    canRotateThrough(board, bcorners, color,
      canFindPieceMoves(board, bcorners, color, p)))

\* Gamestate.canMove (Gamestate.py 426-452): the piece of the reference hand
\* is left as the traversal left it.
canMoveKeep(st, name, a) ==
  [ref |-> [st.ref EXCEPT ![name] = a.p], rtn |-> a.found]

\* Gamestate.canMove (Gamestate.py 425-453): the loop over the sorted hand from
\* its i-th piece on, left when a move is found.
RECURSIVE canMoveLoop(_, _, _, _, _, _)
canMoveLoop(board, bcorners, color, names, st, i) ==
  IF st.rtn \/ i > Len(names) THEN st
  ELSE canMoveLoop(board, bcorners, color, names,
         canMoveKeep(st, names[i],
           canPieceMoves(board, bcorners, color, st.ref[names[i]])),
         i + 1)

\* Gamestate.canMove (Gamestate.py 414-453) by Gamestate gs: the value it
\* returns and the reference hand it leaves.
canMove(h, gs, rf) ==
  IF (\A n \in Names : ~h[getHand(gs, gs.turn)][n])
       \/ Len(h[getCorners(gs, gs.turn)]) = 0
    THEN [ref |-> rf, rtn |-> FALSE]
  ELSE canMoveLoop(h[gs.board], h[getCorners(gs, gs.turn)], gs.turn,
                   sortedHand(h[getHand(gs, gs.turn)]),
                   [ref |-> rf, rtn |-> FALSE], 1)

(***************************************************************************)
(* The state.                                                              *)
(*   heap      the mutable objects, by address                             *)
(*   games     the Gamestate instances, in order of creation               *)
(*   ref       Gamestate.referenceHand, the shared reference pieces        *)
(*   listed    what the latest listMoves call returned, while no update    *)
(*             call and no Gamestate() has been made since                 *)
(*   last      the latest call: which, on which Gamestate, with which      *)
(*             move, and how it ended                                      *)
(*   placed    history: the placements made so far                         *)
(*   recent    history: per Gamestate, how its latest (up to four) update  *)
(*             calls that were not rejected ended                          *)
(*   nCalls, nPasses   the update calls made with a placement and with a   *)
(*             pass                                                        *)
(*   tpiece, tpc, target, flips, rotations   one Piece under test and      *)
(*             the position of a setOrientation call on it                 *)
(***************************************************************************)
VARIABLES heap, games, ref, listed, last, placed, recent, nCalls, nPasses,
          tpiece, tpc, target, flips, rotations

gameVars == <<heap, games, ref, listed, last, placed, recent, nCalls, nPasses>>

pieceVars == <<tpiece, tpc, target, flips, rotations>>

vars == <<heap, games, ref, listed, last, placed, recent, nCalls, nPasses,
          tpiece, tpc, target, flips, rotations>>

\* The default arguments of Gamestate.__init__ (Gamestate.py 91-98), evaluated
\* once, when the def statement runs: ten objects, at addresses 1..10.
defaultHeap ==
  << initHand, initHand, initHand, initHand,
     startCorner(1), startCorner(2), startCorner(3), startCorner(4),
     initBoard, <<None, None, None, None>> >>

\* Gamestate() (Gamestate.py 91-110): every field is bound to the default
\* argument.
Gamestate ==
  [blue |-> 1, yellow |-> 2, red |-> 3, green |-> 4,
   bcorners |-> 5, ycorners |-> 6, rcorners |-> 7, gcorners |-> 8,
   board |-> 9, turn |-> 1, passCount |-> 0, lastPlayed |-> 10]

NoList ==
  [g |-> 0, rtn |-> << >>, checked |-> << >>, evaluated |-> << >>,
   applied |-> << >>, can |-> FALSE]

NoCall == [op |-> "none", g |-> 0, move |-> << >>, ends |-> "none"]

\* The module has been imported and one game has been created.
Init ==
  /\ heap = defaultHeap
  /\ games = <<Gamestate>>
  /\ ref = initRefHand
  /\ listed = NoList
  /\ last = NoCall
  /\ placed = << >>
  /\ recent = << << >> >>
  /\ nCalls = 0
  /\ nPasses = 0
  /\ tpiece = One
  /\ tpc = "idle"
  /\ target = 0
  /\ flips = 0
  /\ rotations = 0

\* The fields of Gamestate g.
Board(g) == heap[games[g].board]

Hand(g, color) == heap[getHand(games[g], color)]

Corners(g, color) == heap[getCorners(games[g], color)]

LastPlayed(g) == heap[games[g].lastPlayed]

LastFour(s) == IF Len(s) > 4 THEN SubSeq(s, Len(s) - 3, Len(s)) ELSE s

\* games[g].update(move) has ended as r tells.
Called(g, move, r) ==
  /\ heap' = r.heap
  /\ games' = [games EXCEPT ![g] = r.game]
  /\ ref' = r.ref
  /\ listed' = NoList
  /\ last' = [op |-> "update", g |-> g, move |-> move, ends |-> r.ends]
  /\ placed' = IF r.ends = "placed"
                 THEN Append(placed, [g |-> g, color |-> games[g].turn,
                                      name |-> move[1],
                                      cells |-> Cells(r.ref[move[1]].shape)])
               ELSE placed
  /\ recent' = IF r.ends \in {"pass", "placed"}
                 THEN [recent EXCEPT ![g] = LastFour(Append(@, r.ends))]
               ELSE recent
  /\ nCalls' = IF Len(move) = 4 THEN nCalls + 1 ELSE nCalls
  /\ nPasses' = IF Len(move) = 4 THEN nPasses ELSE nPasses + 1
  /\ UNCHANGED pieceVars

\* games[g].update(move).  A call that diverges never returns: nothing is
\* called after it.
Call(g, move) ==
  /\ last.ends # "diverges"
  /\ Called(g, move, update(heap, games[g], ref, move))

(***************************************************************************)
(* Spec: one game, driven by a caller that passes or tries any placement   *)
(* of a few kinds near the mover's start corner.                           *)
(***************************************************************************)

\* The kinds the caller tries to place.
PlayNames == {"Z", "L4", "N"}

\* The anchors tried lie within MaxCoord of the mover's start corner tile.
MaxCoord == 1

\* At most MaxCalls update calls carry a placement, at most MaxPasses a pass.
MaxCalls == 2

MaxPasses == 4

\* The tile a player starts from: the exterior of its seed corner.
startCell(color) == startCorner(color)[1][2]

Near(c, bound) == {k \in 0..(boardsize - 1) : k - c <= bound /\ c - k <= bound}

Moves(color, names, bound) ==
  { <<n, o, x, y>> : n \in names, o \in 0..(NumCodes - 1),
                     x \in Near(startCell(color)[1], bound),
                     y \in Near(startCell(color)[2], bound) }

Pass ==
  /\ nPasses < MaxPasses
  /\ Call(1, << >>)

Place ==
  /\ nCalls < MaxCalls
  /\ \E move \in Moves(games[1].turn, PlayNames, MaxCoord) : Call(1, move)

Next == Pass \/ Place

Spec == Init /\ [][Next]_vars

(***************************************************************************)
(* SpecPlay: one game, driven by a caller that asks listMoves for the      *)
(* moves of the player to move and plays one of them, or passes.           *)
(***************************************************************************)

\* Of the moves listMoves returns, the caller plays those of these kinds.
PlayKinds == {"One", "T4"}

\* At most PlayMaxPlaced placements and PlayMaxPasses passes are made.
PlayMaxPlaced == 2

PlayMaxPasses == 3

\* What a call of update that ends as r tells has done to a board: how it
\* ended and, for each cell it changed, the value before and after.
Outcome(board, r) ==
  [ends |-> r.ends,
   changed |-> {<<c, board[c[2]][c[1]], r.heap[r.game.board][c[2]][c[1]]>> :
                  c \in {c \in (0..(boardsize - 1)) \X (0..(boardsize - 1)) :
                           board[c[2]][c[1]] # r.heap[r.game.board][c[2]][c[1]]}}]

\* A call that hands the turn on: a faulty variant of queried.
queriedAdvancing(h, gs) == [heap |-> h, game |-> advanceTurn(gs)]

\* Gamestate.listMoves and Gamestate.canMove (Gamestate.py 341-486), with the
\* methods they call, assign no field of self and no element of the board, of
\* a hand, of a corner list or of lastPlayed; the piece they move is one of
\* the reference hand, and no corner list holds a view of it (updateCorners
\* appends copies).  The heap and the Gamestate they leave.
queried(h, gs) == [heap |-> h, game |-> gs]

\* games[g].listMoves() has returned r.rtn.  Beside the list, listed holds
\* for each tuple what games[g].update would do with it in the state
\* listMoves leaves, and what games[g].canMove() returns in the state
\* listMoves was called in.
Listed(g, r) ==
  /\ ref' = r.ref
  /\ listed' = [g |-> g, rtn |-> r.rtn, checked |-> r.checked,
                evaluated |-> r.evaluated,
                applied |-> [k \in 1..Len(r.rtn) |->
                               Outcome(heap[games[g].board],
                                       update(heap, games[g], r.ref, r.rtn[k]))],
                can |-> canMove(heap, games[g], ref).rtn]
  /\ last' = [op |-> "listMoves", g |-> g, move |-> << >>, ends |-> "returned"]
  /\ heap' = queried(heap, games[g]).heap
  /\ games' = [games EXCEPT ![g] = queried(heap, games[g]).game]
  /\ UNCHANGED <<placed, recent, nCalls, nPasses>>
  /\ UNCHANGED pieceVars

\* games[g].listMoves().
ListMoves(g) ==
  /\ last.ends # "diverges"
  /\ listed.g = 0
  /\ Listed(g, listMoves(heap, games[g], ref))

PlayList == ListMoves(1)

PlayListed ==
  /\ listed.g = 1
  /\ nCalls < PlayMaxPlaced
  /\ \E k \in 1..Len(listed.rtn) :
       /\ listed.rtn[k][1] \in PlayKinds
       /\ Call(1, listed.rtn[k])

PlayPass ==
  /\ nPasses < PlayMaxPasses
  /\ Call(1, << >>)

NextPlay == PlayList \/ PlayListed \/ PlayPass

SpecPlay == Init /\ [][NextPlay]_vars

(***************************************************************************)
(* SpecNew: further games are created with Gamestate() while earlier ones  *)
(* are played.                                                             *)
(***************************************************************************)

\* At most MaxGames Gamestates exist.
MaxGames == 2

NewNames == {"One", "Two"}

NewMaxCalls == 2

NewMaxPasses == 2

\* Gamestate(), called with no arguments.
New ==
  /\ Len(games) < MaxGames
  /\ last.ends # "diverges"
  /\ games' = Append(games, Gamestate)
  /\ recent' = Append(recent, << >>)
  /\ listed' = NoList
  /\ last' = [op |-> "new", g |-> Len(games) + 1, move |-> << >>, ends |-> "returned"]
  /\ UNCHANGED <<heap, ref, placed, nCalls, nPasses>>
  /\ UNCHANGED pieceVars

NewPass ==
  /\ nPasses < NewMaxPasses
  /\ \E g \in 1..Len(games) : Call(g, << >>)

NewPlace ==
  /\ nCalls < NewMaxCalls
  /\ \E g \in 1..Len(games) :
       \E move \in Moves(games[g].turn, NewNames, MaxCoord) : Call(g, move)

NextNew == New \/ NewPass \/ NewPlace

SpecNew == Init /\ [][NextNew]_vars

(***************************************************************************)
(* SpecPiece: one Piece of any kind, transformed by any sequence of calls. *)
(* setOrientation is followed call by call, so that a loop that does not   *)
(* end shows: tpc is "while" from its entry to its return.                 *)
(***************************************************************************)

\* translate is called while the first tile stays within MaxShift of the origin.
MaxShift == 1

\* The while loop of setOrientation is followed for at most MaxRotations turns.
MaxRotations == 5

InitPiece ==
  /\ heap = defaultHeap
  /\ games = <<Gamestate>>
  /\ ref = initRefHand
  /\ listed = NoList
  /\ last = NoCall
  /\ placed = << >>
  /\ recent = << << >> >>
  /\ nCalls = 0
  /\ nPasses = 0
  /\ tpiece \in {initRefHand[n] : n \in Names}
  /\ tpc = "idle"
  /\ target = 0
  /\ flips = 0
  /\ rotations = 0

PieceFrame == UNCHANGED <<heap, games, ref, listed, placed, recent, nCalls, nPasses>>

Str(b) == IF b THEN "True" ELSE "False"

\* Outside setOrientation nothing is left of its last call.
PieceIdle == tpc' = "idle" /\ target' = 0 /\ flips' = 0 /\ rotations' = 0

PieceRotate ==
  /\ tpc = "idle"
  /\ \E turns \in 0..4 :
       /\ tpiece' = rotate(tpiece, turns)
       /\ last' = [op |-> "rotate", g |-> 0, move |-> <<turns>>,
                   ends |-> Str(rotateReturns(tpiece, turns))]
  /\ PieceIdle
  /\ PieceFrame

PieceFlipH ==
  /\ tpc = "idle"
  /\ tpiece' = flipH(tpiece)
  /\ last' = [op |-> "flipH", g |-> 0, move |-> << >>, ends |-> "returned"]
  /\ PieceIdle
  /\ PieceFrame

PieceFlipV ==
  /\ tpc = "idle"
  /\ tpiece' = flipV(tpiece)
  /\ last' = [op |-> "flipV", g |-> 0, move |-> << >>, ends |-> "returned"]
  /\ PieceIdle
  /\ PieceFrame

PieceTranslate ==
  /\ tpc = "idle"
  /\ \E x \in -1..1, y \in -1..1 :
       /\ tpiece.shape[1][1] + x \in (-MaxShift)..MaxShift
       /\ tpiece.shape[1][2] + y \in (-MaxShift)..MaxShift
       /\ tpiece' = translate(tpiece, x, y)
       /\ last' = [op |-> "translate", g |-> 0, move |-> << >>, ends |-> "returned"]
  /\ PieceIdle
  /\ PieceFrame

\* setOrientation is entered: lines 124-125.
SetOrientationCall ==
  /\ tpc = "idle"
  /\ \E new_orientation \in 0..(NumCodes - 1) :
       /\ target' = new_orientation
       /\ flips' = IF setOrientationFlips(tpiece, new_orientation) THEN 1 ELSE 0
       /\ tpiece' = IF setOrientationFlips(tpiece, new_orientation)
                      THEN flipH(tpiece) ELSE tpiece
       /\ last' = [op |-> "setOrientation", g |-> 0, move |-> <<new_orientation>>,
                   ends |-> "running"]
  /\ tpc' = "while"
  /\ rotations' = 0
  /\ PieceFrame

\* One turn of the while loop: lines 126-127.
SetOrientationRotate ==
  /\ tpc = "while"
  /\ tpiece.orientation # target
  /\ rotations < MaxRotations
  /\ tpiece' = rotate(tpiece, 1)
  /\ rotations' = rotations + 1
  /\ UNCHANGED <<tpc, target, flips, last>>
  /\ PieceFrame

\* The loop is left and the call returns: lines 126, 128.
SetOrientationReturn ==
  /\ tpc = "while"
  /\ tpiece.orientation = target
  /\ tpiece' = reduceOrientation(tpiece)
  /\ tpc' = "idle"
  /\ last' = [last EXCEPT !.ends = "returned"]
  /\ UNCHANGED <<target, flips, rotations>>
  /\ PieceFrame

NextPiece ==
  \/ PieceRotate
  \/ PieceFlipH
  \/ PieceFlipV
  \/ PieceTranslate
  \/ SetOrientationCall
  \/ SetOrientationRotate
  \/ SetOrientationReturn

SpecPiece == InitPiece /\ [][NextPiece]_vars

(***************************************************************************)
(* SpecCan: one game, created with a hand and a corner list for blue, in   *)
(* which the caller asks canMove and listMoves and plays listed moves.     *)
(***************************************************************************)

\* Blue's hand holds a subset of these kinds.
CanKinds == {"X", "One", "Two"}

\* At most CanMaxPlaced placements and CanMaxPasses passes are made.
CanMaxPlaced == 1

CanMaxPasses == 3

\* A hand as initHand builds it (Gamestate.py 37-60), holding the given kinds.
handOf(kinds) == [n \in Names |-> n \in kinds]

\* Gamestate(blue = hand, bcorners = corners) (Gamestate.py 91-110): the two
\* arguments are new objects, at addresses 11 and 12.
GamestateWith == [Gamestate EXCEPT !.blue = 11, !.bcorners = 12]

InitCan ==
  /\ \E kinds \in SUBSET CanKinds : \E corners \in {startCorner(1), << >>} :
       heap = defaultHeap \o <<handOf(kinds), corners>>
  /\ games = <<GamestateWith>>
  /\ ref = initRefHand
  /\ listed = NoList
  /\ last = NoCall
  /\ placed = << >>
  /\ recent = << << >> >>
  /\ nCalls = 0
  /\ nPasses = 0
  /\ tpiece = One
  /\ tpc = "idle"
  /\ target = 0
  /\ flips = 0
  /\ rotations = 0

\* games[g].canMove() has returned r.rtn.
CanMoved(g, r) ==
  /\ ref' = r.ref
  /\ last' = [op |-> "canMove", g |-> g, move |-> << >>, ends |-> Str(r.rtn)]
  /\ heap' = queried(heap, games[g]).heap
  /\ games' = [games EXCEPT ![g] = queried(heap, games[g]).game]
  /\ UNCHANGED <<listed, placed, recent, nCalls, nPasses>>
  /\ UNCHANGED pieceVars

\* games[g].canMove().
CanMove(g) ==
  /\ last.ends # "diverges"
  /\ last.op # "canMove"
  /\ CanMoved(g, canMove(heap, games[g], ref))

CanAsk == CanMove(1)

CanList == ListMoves(1)

CanListed ==
  /\ listed.g = 1
  /\ nCalls < CanMaxPlaced
  /\ \E k \in 1..Len(listed.rtn) :
       /\ listed.rtn[k][1] \in CanKinds
       /\ Call(1, listed.rtn[k])

CanPass ==
  /\ nPasses < CanMaxPasses
  /\ Call(1, << >>)

NextCan == CanAsk \/ CanList \/ CanListed \/ CanPass

SpecCan == InitCan /\ [][NextCan]_vars

(***************************************************************************)
(* SpecList: one game, in which the caller tries placements of a few kinds *)
(* in any orientation at the mover's start corner, accepted or not, and    *)
(* asks listMoves in between: the reference pieces are listed from the     *)
(* orientations that update and earlier listings left them in.             *)
(***************************************************************************)

\* The kinds the caller tries to place: one for each setting of the flags.
ListNames == {"F", "T", "Z", "I", "X"}

\* The anchors tried lie within ListCoord of the mover's start corner tile.
ListCoord == 0

\* At most ListMaxCalls placements are tried.
ListMaxCalls == 2

ListPlace ==
  /\ nCalls < ListMaxCalls
  /\ \E move \in Moves(games[1].turn, ListNames, ListCoord) : Call(1, move)

ListList == ListMoves(1)

NextList == ListPlace \/ ListList

SpecList == Init /\ [][NextList]_vars

(***************************************************************************)
(* SpecOpen: one game, driven as in Spec by a caller that passes or tries  *)
(* any placement near the mover's start corner, of the kinds V3 and T4.    *)
(***************************************************************************)

OpenNames == {"V3", "T4"}

\* The anchors tried lie within OpenCoord of the mover's start corner tile.
OpenCoord == 1

\* At most OpenMaxCalls placements are tried and OpenMaxPasses passes made.
OpenMaxCalls == 2

OpenMaxPasses == 3

OpenPass ==
  /\ nPasses < OpenMaxPasses
  /\ Call(1, << >>)

OpenPlace ==
  /\ nCalls < OpenMaxCalls
  /\ \E move \in Moves(games[1].turn, OpenNames, OpenCoord) : Call(1, move)

NextOpen == OpenPass \/ OpenPlace

SpecOpen == Init /\ [][NextOpen]_vars

(***************************************************************************)
(* SpecDup: a game is played, duplicated once with duplicate(), and the    *)
(* original and the copy are played on.                                    *)
(***************************************************************************)

\* At most DupMaxGames Gamestates exist.
DupMaxGames == 2

DupNames == {"One", "Two"}

\* At most DupMaxCalls placements are tried and DupMaxPasses passes made.
DupMaxCalls == 2

DupMaxPasses == 2

\* duplicate with the board handed on uncopied: a faulty variant.
duplicateShallow(h, gs) ==
  [heap |-> h \o << h[gs.blue], h[gs.yellow], h[gs.red], h[gs.green],
                    h[gs.bcorners], h[gs.ycorners], h[gs.rcorners], h[gs.gcorners],
                    h[gs.board], h[gs.lastPlayed] >>,
   game |-> [blue |-> Len(h) + 1, yellow |-> Len(h) + 2, red |-> Len(h) + 3,
             green |-> Len(h) + 4, bcorners |-> Len(h) + 5, ycorners |-> Len(h) + 6,
             rcorners |-> Len(h) + 7, gcorners |-> Len(h) + 8, board |-> gs.board,
             turn |-> gs.turn, passCount |-> gs.passCount,
             lastPlayed |-> Len(h) + 10]]

\* Gamestate.duplicate (Gamestate.py 112-127): deepcopy and copy make ten new
\* objects, which __init__ binds to the fields of the new Gamestate.
duplicate(h, gs) ==
  [heap |-> h \o << h[gs.blue], h[gs.yellow], h[gs.red], h[gs.green],
                    h[gs.bcorners], h[gs.ycorners], h[gs.rcorners], h[gs.gcorners],
                    h[gs.board], h[gs.lastPlayed] >>,
   game |-> [blue |-> Len(h) + 1, yellow |-> Len(h) + 2, red |-> Len(h) + 3,
             green |-> Len(h) + 4, bcorners |-> Len(h) + 5, ycorners |-> Len(h) + 6,
             rcorners |-> Len(h) + 7, gcorners |-> Len(h) + 8, board |-> Len(h) + 9,
             turn |-> gs.turn, passCount |-> gs.passCount,
             lastPlayed |-> Len(h) + 10]]

\* games[g].duplicate() has returned d.game.
Duplicated(g, d) ==
  /\ heap' = d.heap
  /\ games' = Append(games, d.game)
  /\ recent' = Append(recent, recent[g])
  /\ listed' = NoList
  /\ last' = [op |-> "duplicate", g |-> Len(games) + 1, move |-> << >>,
              ends |-> "returned"]
  /\ UNCHANGED <<ref, placed, nCalls, nPasses>>
  /\ UNCHANGED pieceVars

\* games[g].duplicate().
Dup ==
  /\ Len(games) < DupMaxGames
  /\ last.ends # "diverges"
  /\ \E g \in 1..Len(games) : Duplicated(g, duplicate(heap, games[g]))

DupPass ==
  /\ nPasses < DupMaxPasses
  /\ \E g \in 1..Len(games) : Call(g, << >>)

DupPlace ==
  /\ nCalls < DupMaxCalls
  /\ \E g \in 1..Len(games) :
       \E move \in Moves(games[g].turn, DupNames, MaxCoord) : Call(g, move)

NextDup == Dup \/ DupPass \/ DupPlace

SpecDup == Init /\ [][NextDup]_vars

(***************************************************************************)
(* SpecHonest: one game, created with small hands, played honestly until   *)
(* it is terminal: the caller asks canMove; when it returns True the       *)
(* caller asks listMoves and applies one of the moves returned, otherwise  *)
(* it passes.  The caller goes on as long as the game is not terminal.     *)
(***************************************************************************)

\* Blue's hand holds a subset of HonestKinds, each other hand a subset of
\* HonestOthers.
HonestKinds == {"One", "Two", "V3"}

HonestOthers == {"One", "Two"}

\* Gamestate(blue, yellow, red, green) (Gamestate.py 91-110): the four hands
\* are new objects, at addresses 11..14.
GamestateHands ==
  [Gamestate EXCEPT !.blue = 11, !.yellow = 12, !.red = 13, !.green = 14]

InitHonest ==
  /\ \E kinds \in SUBSET HonestKinds : \E others \in SUBSET HonestOthers :
       heap = defaultHeap \o <<handOf(kinds), handOf(others), handOf(others),
                               handOf(others)>>
  /\ games = <<GamestateHands>>
  /\ ref = initRefHand
  /\ listed = NoList
  /\ last = NoCall
  /\ placed = << >>
  /\ recent = << << >> >>
  /\ nCalls = 0
  /\ nPasses = 0
  /\ tpiece = One
  /\ tpc = "idle"
  /\ target = 0
  /\ flips = 0
  /\ rotations = 0

\* The player to move asks canMove.
HonestAsk ==
  /\ ~isTerminal(games[1])
  /\ last.op \in {"none", "update"}
  /\ CanMove(1)

\* canMove has returned True: the player asks listMoves.
HonestList ==
  /\ last.op = "canMove" /\ last.ends = "True"
  /\ ListMoves(1)

\* The player applies one of the moves listMoves has returned.
HonestPlay ==
  /\ last.op = "listMoves" /\ listed.g = 1
  /\ \E k \in 1..Len(listed.rtn) : Call(1, listed.rtn[k])

\* canMove has returned False: the player passes.
HonestPass ==
  /\ last.op = "canMove" /\ last.ends = "False"
  /\ Call(1, << >>)

NextHonest == HonestAsk \/ HonestList \/ HonestPlay \/ HonestPass

\* A call is due: the game is not over, or the player is between canMove and
\* the update it leads to, and no call is still running.
HonestDue ==
  /\ last.ends # "diverges"
  /\ last.op \in {"none", "update"} => ~isTerminal(games[1])

\* The call that is due, by the position of the player's loop.
HonestDueOp ==
  IF last.op \in {"none", "update"} THEN "canMove"
  ELSE IF last.op = "canMove" /\ last.ends = "True" THEN "listMoves"
  ELSE "update"

\* The player makes the call that is due: a step of NextHonest, seen by its
\* position alone.
HonestStep ==
  /\ HonestDue
  /\ \E move \in {<< >>} \cup {listed.rtn[k] : k \in 1..Len(listed.rtn)} :
       \E ends \in {"True", "False", "returned", "placed", "pass", "rejected",
                     "diverges"} :
         last' = [op |-> HonestDueOp, g |-> 1, move |-> move, ends |-> ends]

\* The caller keeps calling while the game is not terminal.
SpecHonest == InitHonest /\ [][NextHonest]_vars /\ WF_last(HonestStep)

(***************************************************************************)
(* Properties.  A placement is read off a step of update: the mover is the *)
(* player to move before the call, and the tiles of the placement are      *)
(* those of the piece of the reference hand as update positioned it.       *)
(***************************************************************************)

\* The cells of a board that hold color.
Colored(board, color) ==
  {c \in (0..(boardsize - 1)) \X (0..(boardsize - 1)) : board[c[2]][c[1]] = color}

\* The start corner cells of players 1..4: (0,0), (0,19), (19,19), (19,0).
StartCornerCell(color) ==
  <<(IF color \in {1, 2} THEN 0 ELSE boardsize - 1),
    (IF color \in {1, 4} THEN 0 ELSE boardsize - 1)>>

Edge(c) == {<<c[1] + 1, c[2]>>, <<c[1] - 1, c[2]>>, <<c[1], c[2] + 1>>, <<c[1], c[2] - 1>>}

Diag(c) == {<<c[1] + 1, c[2] + 1>>, <<c[1] - 1, c[2] + 1>>,
            <<c[1] + 1, c[2] - 1>>, <<c[1] - 1, c[2] - 1>>}

\* The step is a call of update with a placement tuple that ends as told.
UpdateEnds(ends) ==
  last'.op = "update" /\ Len(last'.move) = 4 /\ last'.ends = ends

\* The tiles the call of the step put its piece on, once it oriented and
\* positioned it.
Tiles == Cells(ref'[last'.move[1]].shape)

\* The player to move before the step, and that player's cells and open corners.
Mover == games[last'.g].turn

MoverCells == Colored(Board(last'.g), Mover)

\* The call of the step positioned its piece: the kind was in the hand and
\* setOrientation returned.
Positioned ==
  /\ last'.op = "update" /\ Len(last'.move) = 4
  /\ last'.ends \in {"placed", "rejected"}
  /\ Hand(last'.g, Mover)[last'.move[1]]

\* What C1 lists as the game state of games[g]: board, hands, open corners,
\* turn, passCount and lastPlayed.
GameState(h, gs) ==
  [board |-> h[gs.board],
   hands |-> [c \in 1..4 |-> h[getHand(gs, c)]],
   corners |-> [c \in 1..4 |-> h[getCorners(gs, c)]],
   turn |-> gs.turn, passCount |-> gs.passCount, lastPlayed |-> h[gs.lastPlayed]]

\* C1: whenever update rejects a placement, the game state is as before the
\* call: board, hands, open corners, turn, passCount and lastPlayed unchanged.
C1_RejectedUnchanged ==
  [][UpdateEnds("rejected") =>
       GameState(heap', games'[last'.g]) = GameState(heap, games[last'.g])]_vars

\* A placement of a kind in hand, with a corner matching an open corner, was
\* rejected for a conflict, on a board that holds a piece.
C1_Witness ==
  /\ last.op = "update" /\ last.ends = "rejected"
  /\ Len(placed) >= 1
  /\ Hand(1, games[1].turn)[last.move[1]]
  /\ diagonal(Corners(1, games[1].turn), ref[last.move[1]].corners)
  /\ moveConflicts(Board(1), games[1].turn, ref[last.move[1]])

\* C3: no two cells of one color that were colored by different placements
\* are edge-adjacent on the board.
C3_NoEdgeAdjacency ==
  \A i \in 1..Len(placed) : \A j \in 1..Len(placed) :
    (i # j /\ placed[i].color = placed[j].color) =>
      /\ \A c \in placed[i].cells : Board(1)[c[2]][c[1]] = placed[i].color
      /\ \A c \in placed[i].cells : Edge(c) \cap placed[j].cells = {}

\* Two placements of one color are on the board.
C3_Witness ==
  /\ last.op = "update" /\ last.ends = "placed"
  /\ \E i \in 1..Len(placed) : \E j \in 1..Len(placed) :
       i # j /\ placed[i].color = placed[j].color

\* C4: every placement update accepts has a cell diagonally adjacent to a cell
\* already of the mover's color or, when the mover has placed nothing yet,
\* a cell on the mover's start corner cell; so a first placement that does not
\* cover the start cell is not accepted.
C4_DiagonalTouch ==
  [][UpdateEnds("placed") =>
       \/ \E c \in Tiles : Diag(c) \cap MoverCells # {}
       \/ MoverCells = {} /\ StartCornerCell(Mover) \in Tiles]_vars

\* After a placement was accepted, a player who has placed nothing had a piece
\* rejected that lies edge to edge with the start cell without covering it.
C4_Witness ==
  /\ last.op = "update" /\ last.ends = "rejected"
  /\ Len(placed) >= 1
  /\ Hand(1, games[1].turn)[last.move[1]]
  /\ Colored(Board(1), games[1].turn) = {}
  /\ StartCornerCell(games[1].turn) \notin Cells(ref[last.move[1]].shape)
  /\ Edge(StartCornerCell(games[1].turn)) \cap Cells(ref[last.move[1]].shape) # {}

\* C5: a cell that holds a color holds it after every later call of update, and
\* a placement with a tile on an occupied cell is rejected, also when a corner
\* of it matches an open corner of the mover.
C5_Monotone ==
  [][/\ \A x \in 0..(boardsize - 1), y \in 0..(boardsize - 1) :
          Board(1)[y][x] # 0 => heap'[games'[1].board][y][x] = Board(1)[y][x]
     /\ (Positioned /\ \E c \in Tiles :
                         OnBoard(c[1], c[2]) /\ Board(last'.g)[c[2]][c[1]] # 0)
          => last'.ends = "rejected"]_vars

\* A placement with a tile on an occupied cell and a corner matching an open
\* corner of the mover was rejected.
C5_Witness ==
  /\ last.op = "update" /\ last.ends = "rejected"
  /\ Hand(1, games[1].turn)[last.move[1]]
  /\ diagonal(Corners(1, games[1].turn), ref[last.move[1]].corners)
  /\ \E c \in Cells(ref[last.move[1]].shape) :
       OnBoard(c[1], c[2]) /\ Board(1)[c[2]][c[1]] # 0

\* C8: passCount grows by exactly 1 on every pass and is 0 after every
\* successful placement; isTerminal holds exactly when the last four calls of
\* update that were not rejected were all passes.
C8_PassCount ==
  [][/\ (last'.op = "update" /\ last'.ends = "pass")
          => games'[1].passCount = games[1].passCount + 1
     /\ UpdateEnds("placed") => games'[1].passCount = 0
     /\ isTerminal(games'[1])
          <=> (Len(recent'[1]) = 4 /\ \A i \in 1..4 : recent'[1][i] = "pass")]_vars

\* A successful placement after three passes: passCount is 0 and the game is
\* not terminal.
C8_Witness ==
  /\ recent[1] = <<"pass", "pass", "pass", "placed">>
  /\ games[1].passCount = 0
  /\ ~isTerminal(games[1])

\* C9: once isTerminal is true it stays true after every call of update, a pass
\* or a placement.
C9_TerminalAbsorbing ==
  [][isTerminal(games[1]) => isTerminal(games'[1])]_vars

\* C7: the Gamestate that Gamestate() returns has an empty board, four full
\* hands, one seed corner per player, turn 1, passCount 0 and lastPlayed all
\* None, also when moves were applied to Gamestates created before.
C7_FreshGame ==
  last.op = "new" =>
    /\ Board(last.g) = initBoard
    /\ \A color \in 1..4 : Hand(last.g, color) = initHand
    /\ \A color \in 1..4 : Corners(last.g, color) = startCorner(color)
    /\ games[last.g].turn = 1
    /\ games[last.g].passCount = 0
    /\ LastPlayed(last.g) = <<None, None, None, None>>

\* C10: setOrientation ends after at most one flipH and at most three
\* rotate(1), with the orientation equal to the target, for every kind, every
\* orientation and every target 0..7.
C10_SetOrientationEnds ==
  /\ tpc = "while" => flips <= 1 /\ (tpiece.orientation # target => rotations < 3)
  /\ (last.op = "setOrientation" /\ last.ends = "returned")
       => flips <= 1 /\ rotations <= 3 /\ tpiece.orientation = target

\* The eight rotations and reflections of the plane that keep the grid.
D4 ==
  { << <<1, 0>>, <<0, 1>> >>, << <<0, 1>>, <<-1, 0>> >>,
    << <<-1, 0>>, <<0, -1>> >>, << <<0, -1>>, <<1, 0>> >>,
    << <<-1, 0>>, <<0, 1>> >>, << <<1, 0>>, <<0, -1>> >>,
    << <<0, 1>>, <<1, 0>> >>, << <<0, -1>>, <<-1, 0>> >> }

\* The tiles of a kind as the catalogue gives them, under a map of D4.
Image(name, m) ==
  { <<m[1][1] * c[1] + m[1][2] * c[2], m[2][1] * c[1] + m[2][2] * c[2]>> :
      c \in Cells(initRefHand[name].shape) }

Shifted(S, dx, dy) == {<<c[1] + dx, c[2] + dy>> : c \in S}

\* The cells a piece of color may touch the board at: those diagonal to a cell
\* of the color and, while the seed corner is open, the start corner cell.
AttachCells(board, color, seedOpen) ==
  UNION {Diag(c) : c \in Colored(board, color)}
    \cup (IF seedOpen THEN {StartCornerCell(color)} ELSE {})

\* The placements of a kind with tile t of the image on the cell a.
PlacementsAt(name, attach) ==
  UNION { UNION { {Shifted(Image(name, m), a[1] - t[1], a[2] - t[2]) : t \in Image(name, m)} :
                  a \in attach } : m \in D4 }

\* The rules of C2: all cells on the board and empty, none edge-adjacent to a
\* cell of the color.
Legal(S, board, color) ==
  /\ \A c \in S : OnBoard(c[1], c[2])
  /\ \A c \in S : board[c[2]][c[1]] = 0
  /\ \A c \in S : \A e \in Edge(c) : OnBoard(e[1], e[2]) => board[e[2]][e[1]] # color

\* C2: listMoves is complete: for every kind in the mover's hand and every
\* legal placement of it (on the board, on empty cells, not edge-adjacent to
\* the mover's color, diagonal to a cell of the mover's color or on the start
\* corner cell while the seed corner is open), listMoves returns a tuple of
\* that kind for exactly that cell set.
C2_ListMovesComplete ==
  listed.g = 1 =>
    \A name \in Names :
      Hand(1, games[1].turn)[name] =>
        \A S \in PlacementsAt(name,
                   AttachCells(Board(1), games[1].turn,
                     \E j \in 1..Len(Corners(1, games[1].turn)) :
                       Corners(1, games[1].turn)[j] = startCorner(games[1].turn)[1])) :
          Legal(S, Board(1), games[1].turn) =>
            \E k \in 1..Len(listed.rtn) :
              listed.rtn[k][1] = name /\ listed.checked[k] = S

\* C6: every tuple listMoves returns is applicable: update, called with it on
\* the same state, is not rejected and colors exactly size(name) previously
\* empty cells with bounding-box minimum (x, y), the placement the enumerator
\* validated.
C6_ListedApplicable ==
  listed.g = 1 =>
    \A k \in 1..Len(listed.rtn) :
      /\ listed.applied[k].ends = "placed"
      /\ {ch[1] : ch \in listed.applied[k].changed} = listed.checked[k]
      /\ \A ch \in listed.applied[k].changed : ch[2] = 0 /\ ch[3] = games[1].turn
      /\ Cardinality(listed.checked[k]) = initRefHand[listed.rtn[k][1]].size
      /\ \A c \in listed.checked[k] : c[1] >= listed.rtn[k][3] /\ c[2] >= listed.rtn[k][4]
      /\ \E c \in listed.checked[k] : c[1] = listed.rtn[k][3]
      /\ \E c \in listed.checked[k] : c[2] = listed.rtn[k][4]

\* listMoves has returned tuples in turned and flipped orientations on a board
\* that holds pieces.
C6_Witness ==
  /\ listed.g = 1
  /\ Len(placed) >= 2
  /\ \E k \in 1..Len(listed.rtn) : listed.rtn[k][2] = 1
  /\ \E k \in 1..Len(listed.rtn) : listed.rtn[k][2] = 6

\* A cell set moved so that the minimum of its extent is at the origin.
Normal(S) ==
  {<<c[1] - Min({d[1] : d \in S}), c[2] - Min({d[2] : d \in S})>> : c \in S}

\* The calls of findPieceMoves that the latest listMoves made for a kind.
EvaluatedFor(name) ==
  {i \in 1..Len(listed.evaluated) : listed.evaluated[i].name = name}

\* C11: the orientations listMoves evaluates for a kind are pairwise
\* non-congruent: no two of them have the same cell set up to translation.
C11_NoCongruentDuplicate ==
  listed.g = 1 =>
    \A name \in Names :
      \A i \in EvaluatedFor(name) : \A j \in EvaluatedFor(name) :
        i # j => Normal(listed.evaluated[i].cells) # Normal(listed.evaluated[j].cells)


\* The piece after each call that changes its orientation.
pieceSteps(p) ==
  {rotate(p, 1), rotate(p, 2), rotate(p, 3), flipH(p), flipV(p)}

\* The pieces reached from those seen by any number of such calls.
RECURSIVE reachWith(_, _)
reachWith(seen, next) ==
  IF next \subseteq seen THEN seen
  ELSE reachWith(seen \cup next, UNION {pieceSteps(p) : p \in seen \cup next})

\* For each kind, the cell sets (up to translation) and codes of the pieces
\* reached from the initial instance by rotate, flipH and flipV; translate
\* changes neither.
Reached ==
  [n \in Names |->
     {[cells |-> Normal(Cells(p.shape)), orientation |-> p.orientation] :
        p \in reachWith({initRefHand[n]}, pieceSteps(initRefHand[n]))}]

\* C12: orientation codes are canonical: a piece reached from the initial
\* instance by rotate, flipH, flipV and translate carries the same code as
\* every other such piece of its kind with the same cell set up to translation.
C12_CanonicalCode ==
  \A q \in Reached[tpiece.name] :
    q.cells = Normal(Cells(tpiece.shape)) => q.orientation = tpiece.orientation

\* C13: canMove returns True exactly when listMoves in the same state returns
\* a list that is not empty, and both report no move when the hand or the
\* corner list of the player to move is empty.
C13_CanMoveIffListed ==
  /\ listed.g = 1 => (listed.can <=> Len(listed.rtn) > 0)
  /\ listed.g = 1 /\ last.op = "canMove" =>
       last.ends = Str(Len(listed.rtn) > 0)
  /\ (\A n \in Names : ~Hand(1, games[1].turn)[n]) \/ Len(Corners(1, games[1].turn)) = 0 =>
       /\ listed.g = 1 => ~listed.can /\ Len(listed.rtn) = 0
       /\ last.op = "canMove" => last.ends = "False"

\* canMove and listMoves have found no move for a player with a piece in hand
\* and a corner to play at.
C13_Witness ==
  /\ listed.g = 1 /\ last.op = "canMove" /\ last.ends = "False"
  /\ \E n \in Names : Hand(1, games[1].turn)[n]
  /\ Len(Corners(1, games[1].turn)) > 0

\* C14: a successful placement by the player c to move colors exactly the
\* cells of the piece with c, takes exactly that kind out of c's hand and sets
\* lastPlayed[c]; every other cell of the board, the hands and the corner
\* lists of the other three players and their lastPlayed entries are as before.
C14_PlacementFrame ==
  [][UpdateEnds("placed") =>
       /\ \A x \in 0..(boardsize - 1), y \in 0..(boardsize - 1) :
            heap'[games'[1].board][y][x] =
              IF <<x, y>> \in Tiles THEN Mover ELSE Board(1)[y][x]
       /\ \A c \in Tiles : OnBoard(c[1], c[2]) /\ Board(1)[c[2]][c[1]] = 0
       /\ Hand(1, Mover)[last'.move[1]]
       /\ heap'[getHand(games'[1], Mover)] =
            [Hand(1, Mover) EXCEPT ![last'.move[1]] = FALSE]
       /\ heap'[games'[1].lastPlayed][Mover] = last'.move[1]
       /\ \A c \in (1..4) \ {Mover} :
            /\ heap'[getHand(games'[1], c)] = Hand(1, c)
            /\ heap'[getCorners(games'[1], c)] = Corners(1, c)
            /\ heap'[games'[1].lastPlayed][c] = LastPlayed(1)[c]]_vars

\* A placement was made on a board that held a piece of another player, whose
\* lastPlayed entry is still set.
C14_Witness ==
  /\ last.op = "update" /\ last.ends = "placed"
  /\ Len(placed) = 2
  /\ placed[1].color # placed[2].color
  /\ LastPlayed(1)[placed[1].color] = placed[1].name
  /\ LastPlayed(1)[placed[2].color] = placed[2].name

\* C15: turn is always one of 1..4; a placement and a pass hand the turn on in
\* the order 1, 2, 3, 4, 1; a pass changes nothing but passCount and turn; a
\* rejected placement leaves the turn.
C15_TurnOrder ==
  [][/\ games[1].turn \in 1..4 /\ games'[1].turn \in 1..4
     /\ (last'.op = "update" /\ last'.ends \in {"pass", "placed"})
          => games'[1].turn = (games[1].turn % 4) + 1
     /\ (last'.op = "update" /\ last'.ends = "pass")
          => /\ GameState(heap', games'[1]) =
                  [GameState(heap, games[1]) EXCEPT !.turn = (@ % 4) + 1,
                                                    !.passCount = @ + 1]
             /\ ref' = ref
     /\ UpdateEnds("rejected") => games'[1].turn = games[1].turn]_vars

\* Player 4 has passed after a placement was made: the turn is back at 1.
C15_Witness ==
  /\ last.op = "update" /\ last.ends = "pass"
  /\ games[1].turn = 1
  /\ Len(placed) >= 1

\* C16: update rejects every placement of a kind that is not in the mover's
\* hand; no player places a kind twice; a kind taken out of a hand is never
\* back in it.
C16_HandOnce ==
  [][/\ (last'.op = "update" /\ Len(last'.move) = 4 /\ ~Hand(1, Mover)[last'.move[1]])
          => last'.ends = "rejected"
     /\ \A i \in 1..Len(placed') : \A j \in 1..Len(placed') :
          (i # j /\ placed'[i].color = placed'[j].color)
            => placed'[i].name # placed'[j].name
     /\ \A c \in 1..4 : \A n \in Names :
          ~Hand(1, c)[n] => ~heap'[getHand(games'[1], c)][n]]_vars

\* A player who has placed a kind has asked for it again and was rejected.
C16_Witness ==
  /\ last.op = "update" /\ last.ends = "rejected"
  /\ ~Hand(1, games[1].turn)[last.move[1]]
  /\ \E i \in 1..Len(placed) :
       placed[i].color = games[1].turn /\ placed[i].name = last.move[1]

\* C17: a transform the symmetry flags mark as not distinct is rejected and
\* leaves shape, corners and code as they are: rotate with a turn count outside
\* 1..3, rotate(1) and rotate(3) on a kind with r90 false, rotate(2) on a kind
\* with r180 false, and flipH and flipV on a kind with chiral false.
C17_NonDistinctRejected ==
  [][/\ (last'.op = "rotate" /\ ~rotateReturns(tpiece, last'.move[1]))
          => last'.ends = "False" /\ tpiece' = tpiece
     /\ (last'.op \in {"flipH", "flipV"} /\ ~tpiece.chiral)
          => tpiece' = tpiece]_vars

\* C18: rotate(1) applied four times to a piece in any reachable orientation
\* gives back its shape, corners and code.
C18_RotateFour ==
  rotate(rotate(rotate(rotate(tpiece, 1), 1), 1), 1) = tpiece

\* A piece that was flipped and turned, and that one rotate(1) changes, is
\* about to be rotated.
C18_Witness ==
  /\ last.op = "rotate" /\ last.ends = "True"
  /\ tpiece.orientation = 5
  /\ rotate(tpiece, 1).orientation # tpiece.orientation
  /\ rotate(tpiece, 1).shape # tpiece.shape

\* C19: flipH applied twice to a piece in any reachable orientation gives back
\* its shape, corners and code.
C19_FlipHTwice ==
  flipH(flipH(tpiece)) = tpiece

\* A piece lying on its side, whose code changes in both bits with a flip, is
\* about to be flipped.
C19_Witness ==
  /\ last.op \in {"rotate", "flipH"}
  /\ BitAnd(tpiece.orientation, 4) # 0
  /\ BitXor(flipH(tpiece).orientation, tpiece.orientation) = 3
  /\ flipH(tpiece).shape # tpiece.shape

\* The number of orientations the flags of a kind stand for.
Distinct(p) ==
  (IF p.r90 THEN (IF p.r180 THEN 4 ELSE 2) ELSE (IF p.r180 THEN 2 ELSE 1))
    * (IF p.chiral THEN 2 ELSE 1)

\* C20: for each kind in the mover's hand, the number of orientations
\* listMoves evaluates and the number of distinct codes among them are both
\* (r90 ? (r180 ? 4 : 2) : (r180 ? 2 : 1)) * (chiral ? 2 : 1), whatever
\* orientation the reference piece was left in by earlier calls.
C20_EvaluatedCount ==
  (listed.g = 1 /\ Len(Corners(1, games[1].turn)) > 0) =>
    \A name \in Names :
      Hand(1, games[1].turn)[name] =>
        /\ Cardinality(EvaluatedFor(name)) = Distinct(initRefHand[name])
        /\ Cardinality({listed.evaluated[i].orientation : i \in EvaluatedFor(name)})
             = Distinct(initRefHand[name])

\* listMoves has gone through the eight orientations of F starting from a
\* flipped one, and through the two of I starting from the one on its side.
C20_Witness ==
  /\ listed.g = 1
  /\ Cardinality(EvaluatedFor("F")) = 8
  /\ \E i \in EvaluatedFor("F") :
       /\ i - 1 \notin EvaluatedFor("F")
       /\ BitAnd(listed.evaluated[i].orientation, 1) = 1
  /\ \E i \in EvaluatedFor("I") :
       /\ i - 1 \notin EvaluatedFor("I")
       /\ listed.evaluated[i].orientation = 4

\* C21: listMoves and canMove are read-only over the game state: after either
\* call the board, the four hands, the four corner lists, turn, passCount and
\* lastPlayed are as before the call.
C21_QueriesReadOnly ==
  [][last'.op \in {"listMoves", "canMove"} =>
       GameState(heap', games'[1]) = GameState(heap, games[1])]_vars

\* canMove has been called after listMoves on a board that holds a piece, and
\* has moved a piece of the reference hand.
C21_Witness ==
  /\ last.op = "canMove" /\ listed.g = 1
  /\ Len(placed) >= 1
  /\ ref # initRefHand

\* C22: the orientation code identifies the geometry: a piece reached from the
\* initial instance by rotate, flipH, flipV and translate has the same cell
\* set up to translation as every other such piece of its kind with the same
\* code.
C22_CodeIdentifiesCells ==
  \A q \in Reached[tpiece.name] :
    q.orientation = tpiece.orientation => q.cells = Normal(Cells(tpiece.shape))

\* The conflicts of C23 for a piece on the cells S: a cell off the board, a
\* cell that is occupied, or a neighbour on the board, not itself a cell of
\* the piece, that holds the color.
Conflicts(board, color, S) ==
  \/ \E c \in S : ~OnBoard(c[1], c[2])
  \/ \E c \in S : OnBoard(c[1], c[2]) /\ board[c[2]][c[1]] # 0
  \/ \E c \in S : \E e \in Edge(c) :
       OnBoard(e[1], e[2]) /\ e \notin S /\ board[e[2]][e[1]] = color

\* C23: for the piece as update positioned it, moveConflicts returns True
\* exactly when a cell of the piece is off the board, or is occupied, or has
\* a neighbour on the board, outside the piece, of the mover's color; that
\* the neighbours inside the piece are never disregarded changes nothing.
C23_MoveConflicts ==
  [][Positioned =>
       (moveConflicts(Board(1), Mover, ref'[last'.move[1]])
          <=> Conflicts(Board(1), Mover, Tiles))]_vars

\* A placement with a matching corner, all cells on the board and empty, was
\* rejected for a neighbour of the mover's color alone.
C23_Witness ==
  /\ last.op = "update" /\ last.ends = "rejected"
  /\ Hand(1, games[1].turn)[last.move[1]]
  /\ diagonal(Corners(1, games[1].turn), ref[last.move[1]].corners)
  /\ \A c \in Cells(ref[last.move[1]].shape) :
       OnBoard(c[1], c[2]) /\ Board(1)[c[2]][c[1]] = 0
  /\ Conflicts(Board(1), games[1].turn, Cells(ref[last.move[1]].shape))

\* The corners of a piece on the cells S: the pairs of a cell of the piece and
\* a cell diagonal to it that is neither a cell of the piece nor edge-adjacent
\* to one.
CornersOf(S) ==
  UNION {{<<c, d>> : d \in {e \in Diag(c) : e \notin S /\ Edge(e) \cap S = {}}} : c \in S}

\* The entries of a corner list whose mirror is not in R, in their order.
RECURSIVE Without(_, _)
Without(list, R) ==
  IF list = << >> THEN << >>
  ELSE (IF inv(Head(list)) \in R THEN << >> ELSE <<Head(list)>>)
         \o Without(Tail(list), R)

\* list is kept followed by the corners of new, each once.
FollowedBy(list, kept, new) ==
  /\ Len(list) = Len(kept) + Cardinality(new)
  /\ SubSeq(list, 1, Len(kept)) = kept
  /\ {list[k] : k \in (Len(kept) + 1)..Len(list)} = new

\* C24: after a successful placement the mover's corner list is the old list
\* without the entries whose mirror is a corner of the placed piece, followed
\* by the corners of the placed piece whose mirror was not in the list and
\* whose two cells lie on the board; the seed corner is gone after the first
\* placement of a player.
C24_CornersUpdated ==
  [][UpdateEnds("placed") =>
       /\ FollowedBy(heap'[getCorners(games'[1], Mover)],
                     Without(Corners(1, Mover), CornersOf(Tiles)),
                     {cur \in CornersOf(Tiles) :
                        /\ \A j \in 1..Len(Corners(1, Mover)) :
                             Corners(1, Mover)[j] # inv(cur)
                        /\ OnBoard(cur[1][1], cur[1][2])
                        /\ OnBoard(cur[2][1], cur[2][2])})
       /\ (\A i \in 1..Len(placed) : placed[i].color # Mover)
            => \A j \in 1..Len(heap'[getCorners(games'[1], Mover)]) :
                 heap'[getCorners(games'[1], Mover)][j] # startCorner(Mover)[1]]_vars

\* C25: every entry of every player's corner list is available: its exterior
\* cell, the second of the pair, lies on the board and is empty.
C25_CornersAvailable ==
  \A color \in 1..4 : \A j \in 1..Len(Corners(1, color)) :
    /\ OnBoard(Corners(1, color)[j][2][1], Corners(1, color)[j][2][2])
    /\ Board(1)[Corners(1, color)[j][2][2]][Corners(1, color)[j][2][1]] = 0

\* C26: the corner list of a piece is exactly the set of the diagonal
\* attachment points of its shape: the pairs (c, c + d) of a cell c of the
\* shape and a cell diagonal to it that is not a cell of the shape and not
\* edge-adjacent to one, none missing and none listed twice.
C26_CornersExact ==
  /\ {splitCornerArray(tpiece.corners)[i] : i \in 1..(Len(tpiece.corners) \div 2)}
       = CornersOf(Cells(tpiece.shape))
  /\ Len(tpiece.corners) = 2 * Cardinality(CornersOf(Cells(tpiece.shape)))

\* C27: duplicate returns an independent copy: once a Gamestate has been
\* duplicated, a call of update on the copy leaves the board, hands, corner
\* lists, turn, passCount and lastPlayed of the original as they are, and a
\* call of update on the original leaves those of the copy.
C27_DuplicateIndependent ==
  [][(last'.op = "update" /\ Len(games) = 2) =>
       GameState(heap', games'[3 - last'.g]) = GameState(heap, games[3 - last'.g])]_vars

\* A game with a piece on the board was duplicated, and a piece was placed on
\* the copy: the boards differ.
C27_Witness ==
  /\ Len(games) = 2 /\ Len(placed) = 2
  /\ placed[1].g = 1 /\ placed[2].g = 2
  /\ last.op = "update" /\ last.ends = "placed"
  /\ Colored(Board(1), 1) # {} /\ Colored(Board(2), 2) # {}
  /\ Colored(Board(1), 2) = {}

\* C28: every game ends under honest play: the player's loop is never stuck
\* (no call diverges, a list asked for after canMove returned True is not
\* empty, a listed move is placed), no player places a kind twice, so that at
\* most 4 * 21 = 84 placements occur, and a state with isTerminal true is
\* eventually reached.
C28_HonestPlayEnds ==
  /\ [](/\ last.ends # "diverges"
        /\ last.op = "listMoves" => Len(listed.rtn) > 0
        /\ last.op = "update" =>
             last.ends = (IF Len(last.move) = 4 THEN "placed" ELSE "pass")
        /\ \A i \in 1..Len(placed) : \A j \in 1..Len(placed) :
             i # j => <<placed[i].color, placed[i].name>>
                        # <<placed[j].color, placed[j].name>>
        /\ Len(placed) <= 4 * Cardinality(Names)
        /\ Len(placed) <= 84)
  /\ <>isTerminal(games[1])

\* A game in which every hand was played out has ended with four passes.
C28_Witness ==
  /\ isTerminal(games[1])
  /\ Len(placed) = 5
  /\ recent[1] = <<"pass", "pass", "pass", "pass">>
  /\ \A color \in 1..4 : \A n \in Names : ~Hand(1, color)[n]
=============================================================================
